---- MODULE Spec2Model ----
(***************************************************************************)
(* veessh: profile inheritance resolution (internal/config), profile       *)
(* validation (internal/config), credential backend selection and the      *)
(* credential backends (internal/credentials), the connector registry,     *)
(* shell quoting, remote command assembly and password injection           *)
(* (internal/connectors) and the connect command (internal/cli), modelled  *)
(* from the Go source.                                                     *)
(*                                                                         *)
(* Go strings are TLA+ strings, except where the code inspects characters  *)
(* (strings.TrimSpace in Validate): there a string is a sequence of        *)
(* one-character strings.  Go slices are sequences, a Go map is a function *)
(* whose DOMAIN is the set of stored keys, time.Time is a natural number   *)
(* with 0 the zero time.                                                   *)
(***************************************************************************)
EXTENDS Integers, Sequences, FiniteSets, TLC

VARIABLES
    profiles,    \* Config.Profiles: map[string]Profile
    arg,         \* the name given to the last GetProfile call ("" before any)
    found,       \* GetProfile's second result
    ret,         \* GetProfile's first result
    pc,          \* position of the stepwise GetProfile: idle, call, ret, done
    stack,       \* profiles of the resolveInheritance frames awaiting their parent
    cur,         \* the profile passed to / returned by the current frame
    visited,     \* the visited map shared by all frames of one GetProfile
    recursions,  \* recursive resolveInheritance calls made by this GetProfile
    vp,          \* the profile Validate is called on (its pointer receiver)
    vbefore,     \* that profile as it was before the last Validate call
    verr,        \* the error of the last Validate call, "" for nil
    vcalls,      \* Validate calls made on vp
    envBackend,      \* the value of VEESSH_CREDENTIALS_BACKEND, "" when unset
    cfgDefault,      \* DefaultBackend of the persisted config, "" when none
    cfgLoadOk,       \* config.DefaultPath and config.Load succeed
    opAvailable,     \* OnePasswordBackend.IsAvailable()
    krOpens,         \* KeyringBackend.openRing() succeeds
    fileFails,       \* NewFileBackend() returns an error
    backendType,     \* the package variable backendType
    currentBackend,  \* the package variable currentBackend: "nil" or its kind
    gbRet,           \* the backend the last getBackend call returned, or "nil"
    gbErr,           \* the error the last getBackend call returned, "" for nil
    gbResolved,      \* the last getBackend call went past the cached instance
    gbReadDefault,   \* the last getBackend call loaded the persisted config
    gbTried,         \* the backends the last getBackend call probed or built
    forcedType,      \* the type last given to SetBackendType, auto before any call
    stores,          \* per backend kind, the secrets it holds: profile name -> password
    access,          \* per backend kind, whether its store can be reached
    opErrStream,     \* the stream the op CLI writes its error messages to
    gpKind,          \* the backend kind of the last Backend call, "nil" before any
    gpName,          \* the profile name given to that call
    gpRet,           \* the password the last GetPassword call returned
    gpErr,           \* the error of the last Backend call, "" for nil
    registry,        \* connectors.registry: map[config.Protocol]Connector
    initsRun,        \* the connectors whose init function has run, in order
    started,         \* package initialisation is over and main is running
    getCalled,       \* connectors.Get has been called
    getArg,          \* the protocol given to the last connectors.Get call
    getRet,          \* the connector it returned, "nil" for nil
    getErr,          \* the error it returned, "" for nil
    sqIn,            \* the string given to shellQuote
    sqOut,           \* the string shellQuote returned
    sqDone,          \* shellQuote has been called
    rcDir,           \* Profile.RemoteDir of the profile given to buildRemoteCommand
    rcCmd,           \* Profile.RemoteCommand of that profile
    rcOut,           \* the string buildRemoteCommand returned
    rcDone,          \* buildRemoteCommand has been called
    cpc,             \* position of the connect command: idle, first, second, exited
    cName,           \* the profile name given to connect
    cNoForward,      \* the --no-forward flag
    cBefore,         \* the stored configuration when the command started
    cp,              \* the profile given to Connector.Exec
    cPassword,       \* the password given to Connector.Exec
    tools,           \* the environment: helpers on PATH, failing file operations
    launches,        \* the subprocesses the connector launched, in order
    tmpFiles,        \* the contents of the temporary files the connector wrote
    stderrMsgs,      \* the messages printed to standard error
    interrupted,     \* the operator's interrupt cancelled the command context
    execErr,         \* the error Connector.Exec returned
    cmdErr,          \* the error the connect command and Execute returned
    exitStatus,      \* the exit status of the process, -1 while it runs
    auditLog,        \* the audit entries written, in order
    now,             \* the clock
    kCmd,            \* the profile command that ran: add, edit, clone, favorite, pick, root
    kName,           \* the profile name given to it, or picked in it
    kBefore,         \* the stored configuration when the command started
    kMem,            \* cfg.Profiles in the command's memory when it returned
    kErr,            \* the error the command returned, "" for nil
    kExec,           \* the profiles the command passed to Connector.Exec
    csSite,          \* the composite command string built: remote, mosh, rsync, tmux
    csField,         \* the profile field that holds csValue
    csValue,         \* the profile-supplied value interpolated into the string
    csOut,           \* the composite command string
    csDone,          \* the string has been built
    fDir,            \* the config directory: the inode of config.yaml and of config.yaml.tmp, 0 for none
    fData,           \* the content of each inode created so far
    fPc,             \* where each invocation stands: start, loaded, mutated, opened, written, done
    fMem,            \* the profile names of each invocation's in-memory config
    fFd,             \* the inode each invocation holds open for writing, 0 for none
    fRead,           \* the content each invocation's Load read
    fErr,            \* the error each invocation returned, "" for nil
    fGiven,          \* the configs given to Save so far
    fLast,           \* the invocation whose Save renamed last, "" for none
    mPhase,          \* the migrate command: idle, running, done
    mFrom,           \* its source backend
    mTo,             \* its destination backend
    mPending,        \* the profile names its loop has yet to visit
    mBefore,         \* the stores when it started
    mFailed,         \* its count of failed profiles
    mErr             \* the error it returned, "" for nil

vars ==
    <<profiles, arg, found, ret, pc, stack, cur, visited, recursions,
      vp, vbefore, verr, vcalls,
      envBackend, cfgDefault, cfgLoadOk, opAvailable, krOpens, fileFails,
      backendType, currentBackend, gbRet, gbErr, gbResolved, gbReadDefault,
      gbTried, forcedType,
      stores, access, opErrStream, gpKind, gpName, gpRet, gpErr,
      registry, initsRun, started, getCalled, getArg, getRet, getErr,
      sqIn, sqOut, sqDone, rcDir, rcCmd, rcOut, rcDone,
      cpc, cName, cNoForward, cBefore, cp, cPassword, tools, launches,
      tmpFiles, stderrMsgs, interrupted, execErr, cmdErr, exitStatus,
      auditLog, now,
      kCmd, kName, kBefore, kMem, kErr, kExec,
      csSite, csField, csValue, csOut, csDone,
      fDir, fData, fPc, fMem, fFd, fRead, fErr, fGiven, fLast,
      mPhase, mFrom, mTo, mPending, mBefore, mFailed, mErr>>

configVars == <<profiles, arg, found, ret>>

resolveVars == <<pc, stack, cur, visited, recursions>>

validateVars == <<vp, vbefore, verr, vcalls>>

worldVars == <<envBackend, cfgDefault, cfgLoadOk, opAvailable, krOpens, fileFails>>

callVars == <<gbRet, gbErr, gbResolved, gbReadDefault, gbTried>>

backendVars == <<worldVars, backendType, currentBackend, callVars, forcedType>>

passwordVars == <<stores, access, opErrStream, gpKind, gpName, gpRet, gpErr>>

registryVars == <<registry, initsRun, started, getCalled, getArg, getRet, getErr>>

quoteVars == <<sqIn, sqOut, sqDone>>

remoteVars == <<rcDir, rcCmd, rcOut, rcDone>>

connectVars ==
    <<cpc, cName, cNoForward, cBefore, cp, cPassword, tools, launches,
      tmpFiles, stderrMsgs, interrupted, execErr, cmdErr, exitStatus,
      auditLog, now>>

cliVars == <<kCmd, kName, kBefore, kMem, kErr, kExec>>

\* The state of the profile commands and of the components next to them.
composeVars == <<csSite, csField, csValue, csOut, csDone>>

fileVars == <<fDir, fData, fPc, fMem, fFd, fRead, fErr, fGiven, fLast>>

migrateVars == <<mPhase, mFrom, mTo, mPending, mBefore, mFailed, mErr>>

tailVars == <<fileVars, migrateVars>>

lateVars == <<cliVars, composeVars, tailVars>>

coreVars == <<configVars, resolveVars, validateVars, backendVars>>

\* The state of the components modelled after credential backend selection.
extVars ==
    <<passwordVars, registryVars, quoteVars, remoteVars, connectVars, lateVars>>

\* What the Backend methods leave alone.
notPasswordVars ==
    <<coreVars, registryVars, quoteVars, remoteVars, connectVars, lateVars>>

\* What the connector registry leaves alone.
notRegistryVars ==
    <<coreVars, passwordVars, quoteVars, remoteVars, connectVars, lateVars>>

\* What shellQuote leaves alone.
notQuoteVars ==
    <<coreVars, passwordVars, registryVars, remoteVars, connectVars, lateVars>>

\* What buildRemoteCommand leaves alone.
notRemoteVars ==
    <<coreVars, passwordVars, registryVars, quoteVars, connectVars, lateVars>>

\* What the connect command leaves alone: all but the stored configuration.
notConnectVars ==
    <<arg, found, ret, resolveVars, validateVars, backendVars, passwordVars,
      registryVars, quoteVars, remoteVars, lateVars>>

-----------------------------------------------------------------------------
(* Profile                                                                 *)

\* The profile names the model stores (map keys).
Names == {"a", "b", "c"}

\* Fields that resolveInheritance overrides when the child's string is non-empty.
StringFields ==
    {"Protocol", "Host", "Username", "IdentityFile", "Group", "Description",
     "ProxyJump", "RemoteCommand", "RemoteDir", "InstanceID", "AWSRegion",
     "AWSProfile", "GCPProject", "GCPZone", "MoshServer"}

\* Fields that resolveInheritance overrides when the child's slice is non-empty.
SliceFields ==
    {"Tags", "ExtraArgs", "LocalForwards", "RemoteForwards", "DynamicForwards",
     "SetEnv"}

BoolFields == {"UseAgent", "Favorite", "GCPUseTunnel"}

StatFields == {"LastUsed", "UseCount"}

OverridableFields == StringFields \cup {"Port"} \cup SliceFields

ValueFields == OverridableFields \cup BoolFields \cup StatFields

\* The zero value of a field's Go type.
ZeroOf(f) ==
    IF f \in StringFields THEN ""
    ELSE IF f \in SliceFields THEN <<>>
    ELSE IF f \in BoolFields THEN FALSE
    ELSE 0

\* Profile{}: the zero value of the struct.
ZeroProfile ==
    [f \in ValueFields \cup {"Name", "Extends"} |->
        IF f \in {"Name", "Extends"} THEN "" ELSE ZeroOf(f)]

AllFields == ValueFields \cup {"Name", "Extends"}

-----------------------------------------------------------------------------
(* Config.GetProfile and Config.resolveInheritance                         *)

\* if p.F != "" { merged.F = p.F }
overrideString(child, parent) == IF child # "" THEN child ELSE parent

\* if p.Port != 0 { merged.Port = p.Port }
overrideInt(child, parent) == IF child # 0 THEN child ELSE parent

\* Mutant: the child's elements are appended to the parent's.
overrideSliceConcat(child, parent) == parent \o child

\* if len(p.F) > 0 { merged.F = p.F }
overrideSlice(child, parent) == IF Len(child) > 0 THEN child ELSE parent

\* Mutant: a boolean the child leaves false is inherited.
childBoolInherited(child, parent) == child \/ parent

\* merged.F = p.F for the booleans
childBool(child, parent) == child

\* merged.F = p.F for the usage statistics
childStat(child, parent) == child

\* The merge of resolveInheritance: merged := parent, then the child p's name,
\* the cleared extends and p's overrides, field by field.
mergeProfile(p, parent) ==
    [parent EXCEPT
        !.Name = p.Name,
        !.Extends = "",
        !.Protocol = overrideString(p.Protocol, @),
        !.Host = overrideString(p.Host, @),
        !.Port = overrideInt(p.Port, @),
        !.Username = overrideString(p.Username, @),
        !.IdentityFile = overrideString(p.IdentityFile, @),
        !.Group = overrideString(p.Group, @),
        !.Description = overrideString(p.Description, @),
        !.ProxyJump = overrideString(p.ProxyJump, @),
        !.RemoteCommand = overrideString(p.RemoteCommand, @),
        !.RemoteDir = overrideString(p.RemoteDir, @),
        !.InstanceID = overrideString(p.InstanceID, @),
        !.AWSRegion = overrideString(p.AWSRegion, @),
        !.AWSProfile = overrideString(p.AWSProfile, @),
        !.GCPProject = overrideString(p.GCPProject, @),
        !.GCPZone = overrideString(p.GCPZone, @),
        !.MoshServer = overrideString(p.MoshServer, @),
        !.Tags = overrideSlice(p.Tags, @),
        !.ExtraArgs = overrideSlice(p.ExtraArgs, @),
        !.LocalForwards = overrideSlice(p.LocalForwards, @),
        !.RemoteForwards = overrideSlice(p.RemoteForwards, @),
        !.DynamicForwards = overrideSlice(p.DynamicForwards, @),
        !.SetEnv = overrideSlice(p.SetEnv, @),
        !.UseAgent = childBool(p.UseAgent, @),
        !.Favorite = childBool(p.Favorite, @),
        !.GCPUseTunnel = childBool(p.GCPUseTunnel, @),
        !.LastUsed = childStat(p.LastUsed, @),
        !.UseCount = childStat(p.UseCount, @)]

\* Mutant: the visited map is not consulted.
resolveStopsUnvisited(p, vis) == p.Extends = ""

\* The guard that ends the recursion: nothing to extend, or p was seen already.
resolveStops(p, vis) == p.Extends = "" \/ p.Name \in vis

\* Mutant: the parent is merged as stored, its own parent unresolved.
resolveInheritanceOneLevel(profs, p, vis) ==
    IF resolveStops(p, vis) THEN p
    ELSE IF p.Extends \notin DOMAIN profs THEN p
    ELSE mergeProfile(p, profs[p.Extends])

\* resolveInheritance(p, visited) over the map profs.  The visited map is
\* shared and only grows; no frame reads it after its recursive call returns,
\* so passing the grown set down is the same computation.
RECURSIVE resolveInheritance(_, _, _)
resolveInheritance(profs, p, vis) ==
    IF resolveStops(p, vis) THEN p
    ELSE IF p.Extends \notin DOMAIN profs THEN p
    ELSE LET parent == profs[p.Extends]
             resolved == IF parent.Extends # ""
                         THEN resolveInheritance(profs, parent, vis \cup {p.Name})
                         ELSE parent
         IN  mergeProfile(p, resolved)

\* GetProfile(name): <<profile, found>>.
GetProfile(profs, name) ==
    IF name \notin DOMAIN profs THEN <<ZeroProfile, FALSE>>
    ELSE LET p == profs[name]
         IN  IF p.Extends # ""
             THEN <<resolveInheritance(profs, p, {}), TRUE>>
             ELSE <<p, TRUE>>

-----------------------------------------------------------------------------
(* Inputs: the stored configurations                                       *)

NameIndex(n) == CASE n = "a" -> 1 [] n = "b" -> 2 [] n = "c" -> 3

\* The value profile n holds in field f when it sets the field: marked with
\* the owner, so that the profile a resolved value came from is visible.
OwnValue(n, f) ==
    IF f \in StringFields THEN n
    ELSE IF f \in SliceFields THEN <<n, "x">>
    ELSE IF f \in BoolFields THEN TRUE
    ELSE IF f = "Port" THEN 2200 + NameIndex(n)
    ELSE NameIndex(n)

\* The stored profile n extending ext ("" for none) that sets the fields in set.
MkProfile(n, ext, set) ==
    [f \in AllFields |->
        IF f = "Name" THEN n
        ELSE IF f = "Extends" THEN ext
        ELSE IF f \in set THEN OwnValue(n, f)
        ELSE ZeroOf(f)]

\* The groups of fields that vary together in one stored configuration: every
\* field alone, and some groups across the kinds of field.
FocusSets ==
    {{f} : f \in ValueFields}
    \cup {{"Host", "IdentityFile"}, {"Port", "Tags"}, {"Username", "UseAgent"},
          {"Protocol", "UseCount"}}

\* Every configuration over Names: each name stored or not, extending nothing,
\* a stored name, itself or a name that is not stored.
IsConfigOver(profs, focusSets) ==
    \E focus \in focusSets :
        \E st \in SUBSET Names :
            \E ext \in [st -> Names \cup {""}] :
                \E fs \in [st -> SUBSET focus] :
                    profs = [n \in st |-> MkProfile(n, ext[n], fs[n])]

-----------------------------------------------------------------------------
(* Specification: GetProfile on a stored configuration                     *)

\* No GetProfile is being executed call by call.
ResolveIdle ==
    /\ pc = "idle"
    /\ stack = <<>>
    /\ cur = ZeroProfile
    /\ visited = {}
    /\ recursions = 0

BackendAuto == "auto"

BackendKeyring == "keyring"

Backend1Password == "1password"

BackendFile == "file"

\* The nil Backend.
BackendNil == "nil"

\* The package variables of internal/credentials as declared, and no
\* getBackend call made.
BackendStart ==
    /\ backendType = BackendAuto
    /\ forcedType = BackendAuto
    /\ currentBackend = BackendNil
    /\ gbRet = BackendNil
    /\ gbErr = ""
    /\ gbResolved = FALSE
    /\ gbReadDefault = FALSE
    /\ gbTried = {}

\* The credentials package is not used: nothing is set or available.
BackendIdle ==
    /\ BackendStart
    /\ envBackend = ""
    /\ cfgDefault = ""
    /\ cfgLoadOk = TRUE
    /\ opAvailable = FALSE
    /\ krOpens = FALSE
    /\ fileFails = FALSE

\* Load of a path that does not exist: Config{Profiles: map[string]Profile{}}.
ConfigEmpty ==
    /\ profiles = [n \in {} |-> ZeroProfile]
    /\ arg = ""
    /\ found = FALSE
    /\ ret = ZeroProfile

\* No profile is being validated.
ValidateIdle ==
    /\ vp = ZeroProfile
    /\ vbefore = ZeroProfile
    /\ verr = ""
    /\ vcalls = 0

\* The kinds of credential backend.
BackendKinds == {BackendFile, BackendKeyring, Backend1Password}

\* No Backend method has been called.
PasswordStart ==
    /\ gpKind = BackendNil
    /\ gpName = ""
    /\ gpRet = <<>>
    /\ gpErr = ""

\* No secret is stored anywhere and no Backend method is called.
PasswordIdle ==
    /\ PasswordStart
    /\ stores = [k \in BackendKinds |-> [n \in {} |-> <<>>]]
    /\ access = [k \in BackendKinds |-> TRUE]
    /\ opErrStream = "stderr"

\* The nil Connector.
ConnectorNil == "nil"

\* connectors.Get has not been called.
GetStart ==
    /\ getCalled = FALSE
    /\ getArg = ""
    /\ getRet = ConnectorNil
    /\ getErr = ""

\* The registry as declared, before any init function has run.
RegistryIdle ==
    /\ registry = [p \in {} |-> ConnectorNil]
    /\ initsRun = <<>>
    /\ started = FALSE
    /\ GetStart

\* shellQuote is not used.
QuoteIdle ==
    /\ sqIn = <<>>
    /\ sqOut = <<>>
    /\ sqDone = FALSE

\* buildRemoteCommand is not used.
RemoteIdle ==
    /\ rcDir = <<>>
    /\ rcCmd = <<>>
    /\ rcOut = <<>>
    /\ rcDone = FALSE

\* A nil error; errors carry their kind and, for *exec.ExitError, the code.
ErrNil == [kind |-> "nil", code |-> 0]

\* No connect command is running and none has run.
ConnectStart ==
    /\ cpc = "idle"
    /\ cName = ""
    /\ cNoForward = FALSE
    /\ cBefore = [n \in {} |-> ZeroProfile]
    /\ cp = ZeroProfile
    /\ cPassword = ""
    /\ launches = <<>>
    /\ tmpFiles = {}
    /\ stderrMsgs = {}
    /\ interrupted = FALSE
    /\ execErr = ErrNil
    /\ cmdErr = ErrNil
    /\ exitStatus = -1
    /\ auditLog = <<>>

\* The connect command is not used.
ConnectIdle ==
    /\ ConnectStart
    /\ tools = [sshpass |-> FALSE, setsid |-> FALSE, scriptFails |-> FALSE,
                saveFails |-> FALSE]
    /\ now = 0

\* No profile command has run.
CliIdle ==
    /\ kCmd = ""
    /\ kName = ""
    /\ kBefore = [n \in {} |-> ZeroProfile]
    /\ kMem = [n \in {} |-> ZeroProfile]
    /\ kErr = ""
    /\ kExec = <<>>

\* The profile commands and the components next to them are unused.
\* No composite command string is built.
ComposeIdle ==
    /\ csSite = ""
    /\ csField = ""
    /\ csValue = <<>>
    /\ csOut = <<>>
    /\ csDone = FALSE

\* The invocations that share the config file.
Procs == {"p1", "p2", "p3"}

\* No invocation has touched the config file, which does not exist.
FileIdle ==
    /\ fDir = [path |-> 0, tmp |-> 0]
    /\ fData = <<>>
    /\ fPc = [p \in Procs |-> "start"]
    /\ fMem = [p \in Procs |-> {}]
    /\ fFd = [p \in Procs |-> 0]
    /\ fRead = [p \in Procs |-> <<>>]
    /\ fErr = [p \in Procs |-> ""]
    /\ fGiven = {}
    /\ fLast = ""

\* The migrate command has not run.
MigrateIdle ==
    /\ mPhase = "idle"
    /\ mFrom = ""
    /\ mTo = ""
    /\ mPending = {}
    /\ mBefore = [k \in BackendKinds |-> [n \in {} |-> <<>>]]
    /\ mFailed = 0
    /\ mErr = ""

TailIdle == FileIdle /\ MigrateIdle

LateIdle == CliIdle /\ ComposeIdle /\ TailIdle

\* The components modelled after credential backend selection are unused.
ExtIdle ==
    /\ LateIdle
    /\ PasswordIdle
    /\ RegistryIdle
    /\ QuoteIdle
    /\ RemoteIdle
    /\ ConnectIdle

Init ==
    /\ IsConfigOver(profiles, FocusSets)
    /\ arg = ""
    /\ found = FALSE
    /\ ret = ZeroProfile
    /\ ResolveIdle
    /\ ExtIdle
    /\ ValidateIdle
    /\ BackendIdle

\* cfg.GetProfile(name)
DoGetProfile(name) ==
    /\ arg' = name
    /\ ret' = GetProfile(profiles, name)[1]
    /\ found' = GetProfile(profiles, name)[2]
    /\ UNCHANGED <<profiles, resolveVars, validateVars, backendVars, extVars>>

Next == \E name \in Names : DoGetProfile(name)

Spec == Init /\ [][Next]_vars

-----------------------------------------------------------------------------
(* Specification: GetProfile executed call by call                         *)

\* Cap on the recursive calls one GetProfile may make in the model.
MaxRecursions == 5

\* The field groups of the configurations resolved call by call.
StepFocusSets == {{"Host", "Tags"}}

InitSteps ==
    /\ IsConfigOver(profiles, StepFocusSets)
    /\ arg = ""
    /\ found = FALSE
    /\ ret = ZeroProfile
    /\ ResolveIdle
    /\ ExtIdle
    /\ ValidateIdle
    /\ BackendIdle

\* GetProfile up to its call of resolveInheritance(p, make(map[string]bool)).
StartGetProfile(name) ==
    /\ pc \in {"idle", "done"}
    /\ arg' = name
    /\ stack' = <<>>
    /\ visited' = {}
    /\ recursions' = 0
    /\ IF name \notin DOMAIN profiles
       THEN /\ ret' = ZeroProfile
            /\ found' = FALSE
            /\ cur' = ZeroProfile
            /\ pc' = "done"
       ELSE IF profiles[name].Extends # ""
       THEN /\ ret' = ZeroProfile
            /\ found' = FALSE
            /\ cur' = profiles[name]
            /\ pc' = "call"
       ELSE /\ ret' = profiles[name]
            /\ found' = TRUE
            /\ cur' = ZeroProfile
            /\ pc' = "done"
    /\ UNCHANGED <<profiles, validateVars, backendVars, extVars>>

\* One invocation of resolveInheritance(cur, visited), up to its recursive call
\* or, when it makes none, to its return.
ResolveEnter ==
    /\ pc = "call"
    /\ IF resolveStops(cur, visited)
       THEN /\ pc' = "ret"
            /\ UNCHANGED <<cur, visited, stack, recursions>>
       ELSE /\ visited' = visited \cup {cur.Name}
            /\ IF cur.Extends \notin DOMAIN profiles
               THEN /\ pc' = "ret"
                    /\ UNCHANGED <<cur, stack, recursions>>
               ELSE IF profiles[cur.Extends].Extends # ""
               THEN /\ recursions < MaxRecursions
                    /\ stack' = Append(stack, cur)
                    /\ cur' = profiles[cur.Extends]
                    /\ recursions' = recursions + 1
                    /\ pc' = "call"
               ELSE /\ cur' = mergeProfile(cur, profiles[cur.Extends])
                    /\ pc' = "ret"
                    /\ UNCHANGED <<stack, recursions>>
    /\ UNCHANGED <<profiles, arg, found, ret, validateVars, backendVars, extVars>>

\* A return of resolveInheritance: to the frame that called it, which merges
\* and returns in turn, or to GetProfile.
ResolveReturn ==
    /\ pc = "ret"
    /\ IF stack = <<>>
       THEN /\ ret' = cur
            /\ found' = TRUE
            /\ pc' = "done"
            /\ UNCHANGED <<cur, stack>>
       ELSE /\ cur' = mergeProfile(stack[Len(stack)], cur)
            /\ stack' = SubSeq(stack, 1, Len(stack) - 1)
            /\ pc' = "ret"
            /\ UNCHANGED <<ret, found>>
    /\ UNCHANGED <<profiles, arg, visited, recursions, validateVars, backendVars, extVars>>

NextSteps ==
    \/ \E name \in Names : StartGetProfile(name)
    \/ ResolveEnter
    \/ ResolveReturn

\* The calls are sequential code that runs to completion.
SpecSteps ==
    InitSteps /\ [][NextSteps]_vars /\ WF_vars(ResolveEnter) /\ WF_vars(ResolveReturn)

\* The call-by-call execution computes what the recursive definition computes.
StepsAgree ==
    pc = "done" => <<ret, found>> = GetProfile(profiles, arg)

-----------------------------------------------------------------------------
(* Claims about GetProfile                                                 *)

\* C1: for every configuration and every stored name X, the profile returned
\* by GetProfile(X) has an empty extends field.
C1_ExtendsCleared ==
    found => ret.Extends = ""

\* The parent P that the stored profile C names, when P is stored.
HasStoredParent(profs, c) ==
    /\ c \in DOMAIN profs
    /\ profs[c].Extends \in DOMAIN profs

\* C2: for a stored child C whose extends names a stored parent P, every
\* overridable field f of GetProfile(C) equals GetProfile(P).f when C.f is the
\* zero value and C.f otherwise; a slice is the child's or the resolved
\* parent's, never a concatenation.
C2_OverrideOrInherit ==
    (found /\ HasStoredParent(profiles, arg)) =>
        \A f \in OverridableFields :
            ret[f] = IF profiles[arg][f] = ZeroOf(f)
                     THEN GetProfile(profiles, profiles[arg].Extends)[1][f]
                     ELSE profiles[arg][f]

\* A child that sets its tags and extends a parent with tags of its own was
\* resolved, and another slice it leaves empty came from the parent.
C2_Witness ==
    /\ found
    /\ HasStoredParent(profiles, arg)
    /\ profiles[arg].Extends # arg
    /\ profiles[arg].Tags # <<>>
    /\ profiles[profiles[arg].Extends].Tags # <<>>
    /\ profiles[arg].Port = 0
    /\ ret.Port = profiles[profiles[arg].Extends].Port
    /\ ret.Port # 0

\* Following extends from n never comes back to a name already passed.
RECURSIVE AcyclicFrom(_, _, _)
AcyclicFrom(profs, n, seen) ==
    /\ n \notin seen
    /\ \/ n \notin DOMAIN profs
       \/ profs[n].Extends = ""
       \/ AcyclicFrom(profs, profs[n].Extends, seen \cup {n})

\* The stored value of f in the nearest profile of n's chain, n first, that
\* holds a non-zero value; the zero value when none does.
RECURSIVE NearestValue(_, _, _)
NearestValue(profs, n, f) ==
    IF n \notin DOMAIN profs THEN ZeroOf(f)
    ELSE IF profs[n][f] # ZeroOf(f) THEN profs[n][f]
    ELSE IF profs[n].Extends = "" THEN ZeroOf(f)
    ELSE NearestValue(profs, profs[n].Extends, f)

\* C3: for an acyclic extends chain of any depth, each overridable field of
\* GetProfile(child) is the value of the nearest profile in the chain whose
\* stored value is non-empty, and empty only if the whole chain leaves it empty.
C3_NearestAncestorWins ==
    (found /\ AcyclicFrom(profiles, arg, {})) =>
        \A f \in OverridableFields : ret[f] = NearestValue(profiles, arg, f)

\* A three-level chain was resolved: the child took one field from its
\* grandparent past a parent that leaves it empty.
C3_Witness ==
    /\ found
    /\ arg = "a"
    /\ DOMAIN profiles = Names
    /\ profiles["a"].Extends = "b"
    /\ profiles["b"].Extends = "c"
    /\ profiles["c"].Extends = ""
    /\ profiles["a"].Host = ""
    /\ profiles["b"].Host = ""
    /\ profiles["c"].Host = "c"
    /\ ret.Host = "c"

\* C4: GetProfile terminates for every extends graph, cycles and a
\* self-reference included; it makes at most as many recursive
\* resolveInheritance calls as there are stored names, and reports found = TRUE
\* for a stored name.
C4_BoundedAndFound ==
    /\ [](recursions <= Cardinality(DOMAIN profiles))
    /\ []((pc = "done" /\ arg \in DOMAIN profiles) => found)
    /\ (pc = "call") ~> (pc = "done")

\* A GetProfile on a cycle through all three names finished.
C4_Witness ==
    /\ pc = "done"
    /\ found
    /\ recursions = 3
    /\ profiles[arg].Extends # arg
    /\ Cardinality(DOMAIN profiles) = 3

\* A GetProfile on a profile that extends itself finished.
C4_WitnessSelf ==
    /\ pc = "done"
    /\ found
    /\ profiles[arg].Extends = arg

\* C5: name, lastUsed, useCount, useAgent, favorite and gcpUseTunnel of
\* GetProfile(X) equal X's own stored values, whatever its ancestors hold.
C5_ChildsOwn ==
    found =>
        \A f \in {"Name"} \cup StatFields \cup BoolFields :
            ret[f] = profiles[arg][f]

\* A child with useAgent = false extending a parent with useAgent = true was
\* resolved to useAgent = false.
C5_Witness ==
    /\ found
    /\ HasStoredParent(profiles, arg)
    /\ profiles[arg].Extends # arg
    /\ ~profiles[arg].UseAgent
    /\ profiles[profiles[arg].Extends].UseAgent
    /\ ret.Extends = ""
    /\ ~ret.UseAgent

-----------------------------------------------------------------------------
(* Profile.Validate                                                        *)
(* Name and Host of the validated profile are sequences of characters:     *)
(* Validate trims them.                                                    *)

ProtocolSSH == "ssh"

ProtocolSFTP == "sftp"

ProtocolTelnet == "telnet"

ProtocolMosh == "mosh"

ProtocolSSM == "ssm"

ProtocolGCloud == "gcloud"

\* The characters unicode.IsSpace accepts, among those the model writes.
Whitespace == {" ", "\t", "\n", "\r"}

\* strings.TrimLeft by white space
RECURSIVE TrimLeft(_)
TrimLeft(s) ==
    IF s # <<>> /\ Head(s) \in Whitespace THEN TrimLeft(Tail(s)) ELSE s

\* strings.TrimRight by white space
RECURSIVE TrimRight(_)
TrimRight(s) ==
    IF s # <<>> /\ s[Len(s)] \in Whitespace
    THEN TrimRight(SubSeq(s, 1, Len(s) - 1))
    ELSE s

\* Mutant: the string is tested untrimmed.
TrimSpaceNot(s) == s

\* strings.TrimSpace
TrimSpace(s) == TrimRight(TrimLeft(s))

\* Mutant: telnet gets the ssh port.
defaultPortAll22(protocol, port) ==
    IF protocol \in {ProtocolSSH, ProtocolSFTP, ProtocolMosh, ProtocolTelnet}
    THEN 22
    ELSE port

\* The switch under if p.Port <= 0: the port Validate assigns.
defaultPort(protocol, port) ==
    IF protocol \in {ProtocolSSH, ProtocolSFTP, ProtocolMosh} THEN 22
    ELSE IF protocol = ProtocolTelnet THEN 23
    ELSE port

\* p.Validate(): <<the profile afterwards, the error ("" for nil)>>.
Validate(p) ==
    IF TrimSpace(p.Name) = <<>> THEN <<p, "profile name is required">>
    ELSE IF p.Protocol \notin {ProtocolSSH, ProtocolSFTP, ProtocolTelnet,
                               ProtocolMosh, ProtocolSSM, ProtocolGCloud}
    THEN <<p, "unsupported protocol">>
    ELSE IF TrimSpace(p.Host) = <<>> THEN <<p, "host is required">>
    ELSE IF p.Port <= 0
    THEN <<[p EXCEPT !.Port = defaultPort(p.Protocol, p.Port)], "">>
    ELSE <<p, "">>

\* Longest name or host the model validates.
MaxStrLen == 2

\* Validate calls the model makes on one profile.
MaxValidateCalls == 2

\* The characters of the validated names and hosts.
Chars == {" ", "\t", "h"}

\* The strings over Chars of at most n characters.
StringsUpTo(n) == UNION {[1..k -> Chars] : k \in 0..n}

\* The protocols given to Validate: the supported ones, none, an unsupported
\* one and a supported one in another case.
ProtocolInputs ==
    {ProtocolSSH, ProtocolSFTP, ProtocolTelnet, ProtocolMosh, ProtocolSSM,
     ProtocolGCloud, "", "ftp", "SSH"}

PortInputs == {-1, 0, 22, 23, 2222}

InitValidate ==
    /\ ConfigEmpty
    /\ ResolveIdle
    /\ ExtIdle
    /\ BackendIdle
    /\ \E nm \in StringsUpTo(MaxStrLen), h \in StringsUpTo(MaxStrLen),
          pr \in ProtocolInputs, po \in PortInputs :
            vp = [ZeroProfile EXCEPT !.Name = nm, !.Protocol = pr,
                                     !.Host = h, !.Port = po]
    /\ vbefore = vp
    /\ verr = ""
    /\ vcalls = 0

\* err := vp.Validate()
DoValidate ==
    /\ vcalls < MaxValidateCalls
    /\ vbefore' = vp
    /\ vp' = Validate(vp)[1]
    /\ verr' = Validate(vp)[2]
    /\ vcalls' = vcalls + 1
    /\ UNCHANGED <<configVars, resolveVars, backendVars, extVars>>

NextValidate == DoValidate

SpecValidate == InitValidate /\ [][NextValidate]_vars

\* Every character of s is white space (the empty string included).
AllSpace(s) == \A i \in 1..Len(s) : s[i] \in Whitespace

\* C6: Validate returns an error if and only if the name is empty after
\* trimming, or the protocol is not one of ssh, sftp, telnet, mosh, ssm,
\* gcloud, or the host is empty after trimming; when it returns an error the
\* profile, its port included, is left unchanged.
C6_ValidateErrors ==
    vcalls > 0 =>
        /\ verr # "" <=>
              \/ AllSpace(vbefore.Name)
              \/ vbefore.Protocol \notin {"ssh", "sftp", "telnet", "mosh", "ssm", "gcloud"}
              \/ AllSpace(vbefore.Host)
        /\ verr # "" => vp = vbefore

\* Validate rejected a profile whose host is only white space and whose port
\* was unset, and left the port unset.
C6_Witness ==
    /\ vcalls = 1
    /\ verr = "host is required"
    /\ Len(vbefore.Host) = 2
    /\ vbefore.Protocol = "telnet"
    /\ vbefore.Port = 0
    /\ vp.Port = 0

\* C7: after a successful Validate a profile whose port was <= 0 has port 22
\* for ssh, sftp and mosh, 23 for telnet and its old port for ssm and gcloud; a
\* port > 0 is kept; a second Validate changes nothing.
C7_DefaultPorts ==
    /\ (vcalls > 0 /\ verr = "") =>
          vp.Port = IF vbefore.Port > 0 THEN vbefore.Port
                    ELSE IF vbefore.Protocol \in {"ssh", "sftp", "mosh"} THEN 22
                    ELSE IF vbefore.Protocol = "telnet" THEN 23
                    ELSE vbefore.Port
    /\ vcalls >= 2 => vp = vbefore

\* A telnet profile with an unset port was validated twice: the first call
\* set port 23 and the second succeeded on it again.
C7_Witness ==
    /\ vcalls = 2
    /\ verr = ""
    /\ vp.Protocol = "telnet"
    /\ vp.Port = 23
    /\ vbefore.Port = 23

\* An ssm profile with a negative port was validated and kept its port.
C7_WitnessSSM ==
    /\ vcalls = 1
    /\ verr = ""
    /\ vp.Protocol = "ssm"
    /\ vbefore.Port = -1
    /\ vp.Port = -1

-----------------------------------------------------------------------------
(* credentials.getBackend and credentials.SetBackendType                   *)

\* Mutant: the persisted default is preferred to the override variable.
selectBackendTypeConfigFirst(bt, env, loadOk, def) ==
    IF loadOk /\ def # ""
    THEN [type |-> def, readDefault |-> TRUE]
    ELSE [type |-> IF env # "" THEN env ELSE bt, readDefault |-> TRUE]

\* The first lines of getBackend past the cache: the backend type in effect and
\* whether the persisted config was loaded to find it.
selectBackendType(bt, env, loadOk, def) ==
    IF env # ""
    THEN [type |-> env, readDefault |-> FALSE]
    ELSE [type |-> IF loadOk /\ def # "" THEN def ELSE bt, readDefault |-> TRUE]

\* case Backend1Password
init1Password(op) ==
    IF op
    THEN [backend |-> Backend1Password, err |-> "", tried |-> {Backend1Password}]
    ELSE [backend |-> BackendNil, err |-> "1Password CLI not available",
          tried |-> {Backend1Password}]

\* case BackendKeyring
initKeyring(kr, fok) ==
    IF kr
    THEN [backend |-> BackendKeyring, err |-> "", tried |-> {BackendKeyring}]
    ELSE IF fok
    THEN [backend |-> BackendFile, err |-> "",
          tried |-> {BackendKeyring, BackendFile}]
    ELSE [backend |-> BackendNil,
          err |-> "keyring not available and file backend failed",
          tried |-> {BackendKeyring, BackendFile}]

\* case BackendFile
initFile(fok) ==
    IF fok
    THEN [backend |-> BackendFile, err |-> "", tried |-> {BackendFile}]
    ELSE [backend |-> BackendNil, err |-> "file backend failed",
          tried |-> {BackendFile}]

\* Mutant: auto mode probes the keyring before the 1Password CLI.
initAutoKeyringFirst(op, kr, fok) ==
    IF kr
    THEN [backend |-> BackendKeyring, err |-> "", tried |-> {BackendKeyring}]
    ELSE IF op
    THEN [backend |-> Backend1Password, err |-> "",
          tried |-> {BackendKeyring, Backend1Password}]
    ELSE IF fok
    THEN [backend |-> BackendFile, err |-> "",
          tried |-> {Backend1Password, BackendKeyring, BackendFile}]
    ELSE [backend |-> BackendNil,
          err |-> "all backends failed, file backend error",
          tried |-> {Backend1Password, BackendKeyring, BackendFile}]

\* case BackendAuto and default
initAuto(op, kr, fok) ==
    IF op
    THEN [backend |-> Backend1Password, err |-> "", tried |-> {Backend1Password}]
    ELSE IF kr
    THEN [backend |-> BackendKeyring, err |-> "",
          tried |-> {Backend1Password, BackendKeyring}]
    ELSE IF fok
    THEN [backend |-> BackendFile, err |-> "",
          tried |-> {Backend1Password, BackendKeyring, BackendFile}]
    ELSE [backend |-> BackendNil,
          err |-> "all backends failed, file backend error",
          tried |-> {Backend1Password, BackendKeyring, BackendFile}]

\* switch backendType
initBackend(bt, op, kr, fok) ==
    IF bt = Backend1Password THEN init1Password(op)
    ELSE IF bt = BackendKeyring THEN initKeyring(kr, fok)
    ELSE IF bt = BackendFile THEN initFile(fok)
    ELSE initAuto(op, kr, fok)

\* The values of VEESSH_CREDENTIALS_BACKEND: unset, the four backend names and
\* a value that names no backend.
EnvValues == {"", BackendAuto, BackendKeyring, Backend1Password, BackendFile, "vault"}

\* The backend names runSetBackend accepts.
ValidBackends == {BackendAuto, Backend1Password, BackendKeyring, BackendFile}

InitBackend ==
    /\ ConfigEmpty
    /\ ResolveIdle
    /\ ExtIdle
    /\ ValidateIdle
    /\ BackendStart
    /\ envBackend \in EnvValues
    /\ cfgDefault \in ValidBackends \cup {""}
    /\ cfgLoadOk \in BOOLEAN
    /\ opAvailable \in BOOLEAN
    /\ krOpens \in BOOLEAN
    /\ fileFails \in BOOLEAN

\* getBackend()
DoGetBackend ==
    /\ IF currentBackend # BackendNil
       THEN /\ gbRet' = currentBackend
            /\ gbErr' = ""
            /\ gbResolved' = FALSE
            /\ gbReadDefault' = FALSE
            /\ gbTried' = {}
            /\ UNCHANGED <<backendType, currentBackend>>
       ELSE LET sel == selectBackendType(backendType, envBackend, cfgLoadOk,
                                         cfgDefault)
                r == initBackend(sel.type, opAvailable, krOpens, ~fileFails)
            IN  /\ backendType' = sel.type
                /\ currentBackend' = r.backend
                /\ gbRet' = r.backend
                /\ gbErr' = r.err
                /\ gbResolved' = TRUE
                /\ gbReadDefault' = sel.readDefault
                /\ gbTried' = r.tried
    /\ UNCHANGED <<extVars, configVars, resolveVars, validateVars, worldVars, forcedType>>

\* Mutant: SetBackendType keeps the cached instance.
DoSetBackendTypeKeepCache(bt) ==
    /\ backendType' = bt
    /\ forcedType' = bt
    /\ UNCHANGED currentBackend
    /\ UNCHANGED <<extVars, configVars, resolveVars, validateVars, worldVars, callVars>>

\* SetBackendType(bt)
DoSetBackendType(bt) ==
    /\ backendType' = bt
    /\ currentBackend' = BackendNil
    /\ forcedType' = bt
    /\ UNCHANGED <<extVars, configVars, resolveVars, validateVars, worldVars, callVars>>

\* runSetBackend, in this or another invocation: the persisted default changes.
PersistDefault(b) ==
    /\ cfgDefault' = b
    /\ UNCHANGED <<extVars, configVars, resolveVars, validateVars, envBackend, cfgLoadOk,
                   opAvailable, krOpens, fileFails, backendType, currentBackend,
                   callVars, forcedType>>

\* The user signs in to or out of the 1Password CLI.
OpSessionChanges ==
    /\ opAvailable' = ~opAvailable
    /\ UNCHANGED <<extVars, configVars, resolveVars, validateVars, envBackend, cfgDefault,
                   cfgLoadOk, krOpens, fileFails, backendType, currentBackend,
                   callVars, forcedType>>

\* The OS secret store becomes reachable or unreachable.
KeyringChanges ==
    /\ krOpens' = ~krOpens
    /\ UNCHANGED <<extVars, configVars, resolveVars, validateVars, envBackend, cfgDefault,
                   cfgLoadOk, opAvailable, fileFails, backendType, currentBackend,
                   callVars, forcedType>>

\* The persisted config stops or starts being loadable (unreadable file,
\* text that does not parse).
ConfigLoadChanges ==
    /\ cfgLoadOk' = ~cfgLoadOk
    /\ UNCHANGED <<extVars, configVars, resolveVars, validateVars, envBackend, cfgDefault,
                   opAvailable, krOpens, fileFails, backendType, currentBackend,
                   callVars, forcedType>>

NextBackend ==
    \/ DoGetBackend
    \/ ConfigLoadChanges
    \/ \E bt \in ValidBackends : DoSetBackendType(bt)
    \/ \E b \in ValidBackends : PersistDefault(b)
    \/ OpSessionChanges
    \/ KeyringChanges

SpecBackend == InitBackend /\ [][NextBackend]_vars

-----------------------------------------------------------------------------
(* Claims about getBackend                                                 *)

\* A getBackend call that finds no cached instance and resolves.
ResolvingCall == DoGetBackend /\ currentBackend = BackendNil

\* The backend the user selected: the override variable when set, otherwise
\* the persisted default when the config loads; "" when neither names one.
UserSelection ==
    IF envBackend # "" THEN envBackend
    ELSE IF cfgLoadOk THEN cfgDefault
    ELSE ""

\* Backend b can be used now.
Available(b) ==
    \/ b = "1password" /\ opAvailable
    \/ b = "keyring" /\ krOpens
    \/ b = "file" /\ ~fileFails

\* C8: when a specific non-auto backend is selected, by the override variable
\* or by the persisted default, and it is unavailable, getBackend fails with an
\* error and no other backend is tried or returned; for the OS keyring as for
\* the password-manager CLI.
C8_ForcedUnavailableFails ==
    [][(/\ ResolvingCall
        /\ UserSelection \in {"1password", "keyring", "file"}
        /\ ~Available(UserSelection))
       => /\ gbErr' # ""
          /\ gbRet' = "nil"
          /\ gbTried' \subseteq {UserSelection}]_vars

\* C9: in auto mode getBackend selects the password-manager CLI backend if it
\* is available, otherwise the OS keyring if it opens, otherwise the encrypted
\* file backend; when the file backend can be constructed auto-mode resolution
\* returns no error.
AutoMode ==
    \/ envBackend = "auto"
    \/ /\ envBackend = ""
       /\ \/ cfgLoadOk /\ cfgDefault = "auto"
          \/ (~cfgLoadOk \/ cfgDefault = "") /\ backendType = "auto"

C9_AutoOrder ==
    [][(ResolvingCall /\ AutoMode)
       => /\ opAvailable => gbRet' = "1password"
          /\ (~opAvailable /\ krOpens) => gbRet' = "keyring"
          /\ (~opAvailable /\ ~krOpens /\ ~fileFails) => gbRet' = "file"
          /\ ~fileFails => (gbErr' = "" /\ gbRet' # "nil")
          /\ gbRet' # "nil" => currentBackend' = gbRet']_vars

\* Auto mode resolved to the keyring with the 1Password CLI unavailable.
C9_Witness ==
    /\ gbResolved
    /\ envBackend = ""
    /\ cfgDefault = ""
    /\ backendType = "auto"
    /\ ~opAvailable
    /\ krOpens
    /\ gbRet = "keyring"
    /\ gbErr = ""
    /\ gbTried = {"1password", "keyring"}

\* Auto mode resolved to the file backend with both other stores unavailable.
C9_WitnessFile ==
    /\ gbResolved
    /\ envBackend = "auto"
    /\ ~opAvailable
    /\ ~krOpens
    /\ gbRet = "file"
    /\ gbErr = ""

C10_WitnessDefault ==
    /\ gbResolved
    /\ envBackend = ""
    /\ cfgDefault = "keyring"
    /\ gbReadDefault
    /\ backendType = "keyring"
    /\ gbRet = "keyring"

-----------------------------------------------------------------------------
(* Credential backends: SetPassword, GetPassword, DeletePassword           *)
(* (internal/credentials).  A password is a sequence of one-character      *)
(* strings, <<>> the empty string.                                         *)

\* The profile names given to the Backend methods.
PNames == {"", "a"}

\* The passwords stored.
Passwords == {<<"s">>, <<" ", "s">>}

\* A Go map with key k set to v.
MapSet(m, k, v) == [x \in DOMAIN m \cup {k} |-> IF x = k THEN v ELSE m[x]]

\* delete(m, k)
MapDelete(m, k) == [x \in DOMAIN m \ {k} |-> m[x]]

\* The result of a Backend method: the store after it, the password and the
\* error returned ("" for nil).
BackendResult(store, password, err) == [store |-> store, ret |-> password, err |-> err]

\* FileBackend.GetPassword; ok: loadPasswords reads, decrypts and parses.
FileGetPassword(store, ok, name) ==
    IF name = "" THEN BackendResult(store, <<>>, "profile name required")
    ELSE IF ~ok THEN BackendResult(store, <<>>, "failed to read password file")
    ELSE IF name \notin DOMAIN store THEN BackendResult(store, <<>>, "")
    ELSE BackendResult(store, store[name], "")

\* FileBackend.SetPassword
FileSetPassword(store, ok, name, password) ==
    IF name = "" THEN BackendResult(store, <<>>, "profile name required")
    ELSE IF ~ok THEN BackendResult(store, <<>>, "failed to read password file")
    ELSE BackendResult(MapSet(store, name, password), <<>>, "")

\* FileBackend.DeletePassword
FileDeletePassword(store, ok, name) ==
    IF name = "" THEN BackendResult(store, <<>>, "profile name required")
    ELSE IF ~ok THEN BackendResult(store, <<>>, "failed to read password file")
    ELSE BackendResult(MapDelete(store, name), <<>>, "")

\* KeyringBackend.GetPassword; ok: openRing and the ring's Get reach the keyring.
KeyringGetPassword(store, ok, name) ==
    IF ~ok THEN BackendResult(store, <<>>, "keyring unavailable")
    ELSE IF name \notin DOMAIN store THEN BackendResult(store, <<>>, "")
    ELSE BackendResult(store, store[name], "")

\* KeyringBackend.SetPassword
KeyringSetPassword(store, ok, name, password) ==
    IF name = "" THEN BackendResult(store, <<>>, "profile name required")
    ELSE IF ~ok THEN BackendResult(store, <<>>, "keyring unavailable")
    ELSE BackendResult(MapSet(store, name, password), <<>>, "")

\* KeyringBackend.DeletePassword: Remove of a missing key is ErrKeyNotFound.
KeyringDeletePassword(store, ok, name) ==
    IF ~ok THEN BackendResult(store, <<>>, "keyring unavailable")
    ELSE IF name \notin DOMAIN store THEN BackendResult(store, <<>>, "key not found")
    ELSE BackendResult(MapDelete(store, name), <<>>, "")

\* The texts GetPassword looks for in the output of a failed `op item get`.
NotFoundTexts == {"isn't in", "not found", "No item found"}

\* strings.Contains over an output given as the sequence of its phrases.
Contains(output, text) == \E i \in DOMAIN output : output[i] = text

\* `op item get <ref>`: exit status, standard output and standard error.  ok:
\* the CLI is signed in; stream: where the CLI writes its error messages.
opItemGet(store, ok, stream, name) ==
    LET fail(msg) == [exit |-> 1,
                      stdout |-> IF stream = "stdout" THEN <<msg>> ELSE <<>>,
                      stderr |-> IF stream = "stderr" THEN <<msg>> ELSE <<>>]
    IN  IF ~ok THEN fail("not signed in")
        ELSE IF name \notin DOMAIN store THEN fail("No item found")
        ELSE [exit |-> 0, stdout |-> store[name], stderr |-> <<>>]

\* cmd.Output(): the standard output of the command.
cmdOutput(r) == r.stdout

\* OnePasswordBackend.GetPassword
OnePasswordGetPassword(store, ok, stream, name) ==
    IF name = "" THEN BackendResult(store, <<>>, "profile name required")
    ELSE LET r == opItemGet(store, ok, stream, name)
             output == cmdOutput(r)
         IN  IF r.exit # 0
             THEN IF \E t \in NotFoundTexts : Contains(output, t)
                  THEN BackendResult(store, <<>>, "")
                  ELSE BackendResult(store, <<>>, "1password CLI error")
             ELSE BackendResult(store, TrimSpace(output), "")

\* OnePasswordBackend.itemExists
itemExists(store, ok, stream, name) == opItemGet(store, ok, stream, name).exit = 0

\* OnePasswordBackend.SetPassword: `op item edit` of an existing item, else
\* `op item create`; either fails when the CLI is not signed in.
OnePasswordSetPassword(store, ok, stream, name, password) ==
    IF name = "" THEN BackendResult(store, <<>>, "profile name required")
    ELSE IF ~ok THEN BackendResult(store, <<>>, "1password CLI error")
    ELSE IF itemExists(store, ok, stream, name)
    THEN BackendResult(MapSet(store, name, password), <<>>, "")
    ELSE BackendResult(MapSet(store, name, password), <<>>, "")

\* OnePasswordBackend.DeletePassword: `op item delete` fails on a missing item.
OnePasswordDeletePassword(store, ok, name) ==
    IF name = "" THEN BackendResult(store, <<>>, "profile name required")
    ELSE IF ~ok \/ name \notin DOMAIN store
    THEN BackendResult(store, <<>>, "1password CLI error")
    ELSE BackendResult(MapDelete(store, name), <<>>, "")

\* Backend.GetPassword of the backend of kind k
BackendGetPassword(k, st, acc, stream, name) ==
    CASE k = BackendFile -> FileGetPassword(st[k], acc[k], name)
      [] k = BackendKeyring -> KeyringGetPassword(st[k], acc[k], name)
      [] k = Backend1Password -> OnePasswordGetPassword(st[k], acc[k], stream, name)

\* Backend.SetPassword of the backend of kind k
BackendSetPassword(k, st, acc, stream, name, password) ==
    CASE k = BackendFile -> FileSetPassword(st[k], acc[k], name, password)
      [] k = BackendKeyring -> KeyringSetPassword(st[k], acc[k], name, password)
      [] k = Backend1Password ->
            OnePasswordSetPassword(st[k], acc[k], stream, name, password)

\* Backend.DeletePassword of the backend of kind k
BackendDeletePassword(k, st, acc, name) ==
    CASE k = BackendFile -> FileDeletePassword(st[k], acc[k], name)
      [] k = BackendKeyring -> KeyringDeletePassword(st[k], acc[k], name)
      [] k = Backend1Password -> OnePasswordDeletePassword(st[k], acc[k], name)

-----------------------------------------------------------------------------
(* Specification: the Backend methods on the three stores                  *)

\* The other components are unused while the backends are exercised.
CoreIdle ==
    /\ ConfigEmpty
    /\ ResolveIdle
    /\ ValidateIdle
    /\ BackendIdle

InitPassword ==
    /\ LateIdle
    /\ CoreIdle
    /\ ConnectIdle
    /\ RegistryIdle
    /\ QuoteIdle
    /\ RemoteIdle
    /\ PasswordStart
    /\ stores = [k \in BackendKinds |-> [n \in {} |-> <<>>]]
    /\ access = [k \in BackendKinds |-> TRUE]
    /\ opErrStream \in {"stdout", "stderr"}

\* backend.GetPassword(name)
DoGetPassword(k, name) ==
    LET r == BackendGetPassword(k, stores, access, opErrStream, name)
    IN  /\ gpKind' = k
        /\ gpName' = name
        /\ gpRet' = r.ret
        /\ gpErr' = r.err
        /\ UNCHANGED <<stores, access, opErrStream>>
        /\ UNCHANGED notPasswordVars

\* backend.SetPassword(name, password)
DoSetPassword(k, name, password) ==
    LET r == BackendSetPassword(k, stores, access, opErrStream, name, password)
    IN  /\ gpKind' = k
        /\ gpName' = name
        /\ gpRet' = <<>>
        /\ gpErr' = r.err
        /\ stores' = [stores EXCEPT ![k] = r.store]
        /\ UNCHANGED <<access, opErrStream>>
        /\ UNCHANGED notPasswordVars

\* backend.DeletePassword(name)
DoDeletePassword(k, name) ==
    LET r == BackendDeletePassword(k, stores, access, name)
    IN  /\ gpKind' = k
        /\ gpName' = name
        /\ gpRet' = <<>>
        /\ gpErr' = r.err
        /\ stores' = [stores EXCEPT ![k] = r.store]
        /\ UNCHANGED <<access, opErrStream>>
        /\ UNCHANGED notPasswordVars

\* The environment: a store becomes unreachable (unreadable file, locked
\* keyring, signed-out CLI) or reachable again.
AccessChanges(k) ==
    /\ access' = [access EXCEPT ![k] = ~access[k]]
    /\ UNCHANGED <<stores, opErrStream, gpKind, gpName, gpRet, gpErr>>
    /\ UNCHANGED notPasswordVars

NextPassword ==
    \E k \in BackendKinds :
        \/ \E name \in PNames : DoGetPassword(k, name)
        \/ \E name \in PNames, password \in Passwords :
                DoSetPassword(k, name, password)
        \/ \E name \in PNames : DoDeletePassword(k, name)
        \/ AccessChanges(k)

SpecPassword == InitPassword /\ [][NextPassword]_vars

\* A GetPassword call on the backend of kind k for a named profile.
GetPasswordCall(k, name) == name # "" /\ DoGetPassword(k, name)

\* C11: GetPassword for a profile with no stored secret returns the empty
\* string and no error for every backend kind, and a backend access failure
\* returns an error.
C11_MissingIsEmptyNoError ==
    [][\A k \in BackendKinds, name \in PNames :
          GetPasswordCall(k, name) =>
              /\ (access[k] /\ name \notin DOMAIN stores[k]) =>
                    (gpRet' = <<>> /\ gpErr' = "")
              /\ ~access[k] => gpErr' # ""]_vars

-----------------------------------------------------------------------------
(* Connector registry (internal/connectors)                                *)

\* Name() of the telnet connector.
telnetName == "telnet"

\* The connector types and the Name() of each.
ConnectorName(c) ==
    CASE c = "sshConnector" -> "ssh"
      [] c = "sftpConnector" -> "sftp"
      [] c = "moshConnector" -> "mosh"
      [] c = "ssmConnector" -> "ssm"
      [] c = "gcloudConnector" -> "gcloud"
      [] c = "telnetConnector" -> telnetName

\* The protocol each connector's init function registers it under.
sshInit == [protocol |-> ProtocolSSH, connector |-> "sshConnector"]

sftpInit == [protocol |-> ProtocolSFTP, connector |-> "sftpConnector"]

moshInit == [protocol |-> ProtocolMosh, connector |-> "moshConnector"]

ssmInit == [protocol |-> ProtocolSSM, connector |-> "ssmConnector"]

gcloudInit == [protocol |-> ProtocolGCloud, connector |-> "gcloudConnector"]

telnetInit == [protocol |-> ProtocolTelnet, connector |-> "telnetConnector"]

\* The init functions of package connectors.
InitFuncs == {sshInit, sftpInit, moshInit, ssmInit, gcloudInit, telnetInit}

\* Register(p, c)
Register(reg, p, c) == MapSet(reg, p, c)

\* Get that reports a missing protocol as a nil connector without an error.
connectorGetNilError(reg, p) ==
    IF p \notin DOMAIN reg
    THEN [conn |-> ConnectorNil, err |-> ""]
    ELSE [conn |-> reg[p], err |-> ""]

\* Get(p): the connector and the error.
connectorGet(reg, p) ==
    IF p \notin DOMAIN reg
    THEN [conn |-> ConnectorNil, err |-> "no connector for protocol"]
    ELSE [conn |-> reg[p], err |-> ""]

\* The protocols given to Get.
GetInputs ==
    {ProtocolSSH, ProtocolSFTP, ProtocolTelnet, ProtocolMosh, ProtocolSSM,
     ProtocolGCloud, "nonexistent", ""}

InitRegistry ==
    /\ LateIdle
    /\ CoreIdle
    /\ ConnectIdle
    /\ PasswordIdle
    /\ RegistryIdle
    /\ QuoteIdle
    /\ RemoteIdle

\* One init function of the package runs; the order among the files is the
\* order they are presented to the compiler, which is left open.
RunInit(f) ==
    /\ ~started
    /\ \A i \in DOMAIN initsRun : initsRun[i] # f.connector
    /\ registry' = Register(registry, f.protocol, f.connector)
    /\ initsRun' = Append(initsRun, f.connector)
    /\ UNCHANGED <<started, getCalled, getArg, getRet, getErr>>
    /\ UNCHANGED notRegistryVars

\* Package initialisation ends once every init function has run.
StartMain ==
    /\ ~started
    /\ Len(initsRun) = Cardinality(InitFuncs)
    /\ started' = TRUE
    /\ UNCHANGED <<registry, initsRun, getCalled, getArg, getRet, getErr>>
    /\ UNCHANGED notRegistryVars

\* connectors.Get(p), called by the commands
DoGet(p) ==
    /\ started
    /\ getCalled' = TRUE
    /\ getArg' = p
    /\ getRet' = connectorGet(registry, p).conn
    /\ getErr' = connectorGet(registry, p).err
    /\ UNCHANGED <<registry, initsRun, started>>
    /\ UNCHANGED notRegistryVars

NextRegistry ==
    \/ \E f \in InitFuncs : RunInit(f)
    \/ StartMain
    \/ \E p \in GetInputs : DoGet(p)

SpecRegistry == InitRegistry /\ [][NextRegistry]_vars

\* The six protocols Validate accepts.
ValidProtocols ==
    {ProtocolSSH, ProtocolSFTP, ProtocolTelnet, ProtocolMosh, ProtocolSSM,
     ProtocolGCloud}

\* C12: after startup, Get returns a non-nil connector whose Name() is the
\* protocol for each of the six protocols Validate accepts, and an error
\* for a protocol that was never registered.
C12_RegistryComplete ==
    getCalled =>
        /\ getArg \in ValidProtocols =>
              /\ getErr = ""
              /\ getRet # ConnectorNil
              /\ ConnectorName(getRet) = getArg
        /\ (\A f \in InitFuncs : f.protocol # getArg) =>
              /\ getErr # ""
              /\ getRet = ConnectorNil

\* Get was asked for sftp after startup and returned the sftp connector.
C12_Witness ==
    /\ getCalled
    /\ getArg = ProtocolSFTP
    /\ getRet = "sftpConnector"

\* Get was asked for a protocol no init function registers.
C12_WitnessUnregistered ==
    /\ getCalled
    /\ getArg = "nonexistent"
    /\ getErr # ""

-----------------------------------------------------------------------------
(* shellQuote (internal/connectors/ssh.go).  Strings are sequences of      *)
(* one-character strings here.                                             *)

\* The single quote and the double quote.
SQ == "'"

DQ == "\""

\* The backquote, which a TLA+ string cannot hold: named instead.
BQ == "backquote"

\* strings.ReplaceAll(s, old, new) for a one-character old.
RECURSIVE ReplaceAll(_, _, _)
ReplaceAll(s, old, new) ==
    IF s = <<>> THEN <<>>
    ELSE (IF Head(s) = old THEN new ELSE <<Head(s)>>) \o ReplaceAll(Tail(s), old, new)

\* shellQuote that wraps in single quotes without escaping embedded ones.
shellQuoteNoEscape(s) == <<SQ>> \o s \o <<SQ>>

\* shellQuote(s) = "'" + strings.ReplaceAll(s, "'", "'\"'\"'") + "'"
shellQuote(s) == <<SQ>> \o ReplaceAll(s, SQ, <<SQ, DQ, SQ, DQ, SQ>>) \o <<SQ>>

\* Longest string given to shellQuote.
MaxQuoteLen == 3

\* The characters of the strings given to shellQuote.
QuoteChars == {SQ, DQ, " ", "$", BQ, ";", "|", "\\", "a"}

\* The strings over a set of characters, up to a length.
StringsOver(chars, n) == UNION {[1..k -> chars] : k \in 0..n}

InitQuote ==
    /\ LateIdle
    /\ CoreIdle
    /\ ConnectIdle
    /\ PasswordIdle
    /\ RegistryIdle
    /\ RemoteIdle
    /\ sqIn \in StringsOver(QuoteChars, MaxQuoteLen)
    /\ sqOut = <<>>
    /\ sqDone = FALSE

\* shellQuote(sqIn)
DoShellQuote ==
    /\ ~sqDone
    /\ sqOut' = shellQuote(sqIn)
    /\ sqDone' = TRUE
    /\ UNCHANGED sqIn
    /\ UNCHANGED notQuoteVars

NextQuote == DoShellQuote

SpecQuote == InitQuote /\ [][NextQuote]_vars

\* The characters that end a word or start an operator when unquoted.
ShellMeta == {" ", "\t", "\n", ";", "|", "&", "<", ">", "(", ")"}

\* The characters a backslash escapes inside double quotes.
DQEscapable == {"$", BQ, DQ, "\\", "\n"}

\* POSIX shell word parsing (XCU 2.2 Quoting) of token t from position i:
\* mode is plain, single or double, acc the value so far, quoted whether
\* any quoting occurred.  The result is ok exactly when the whole token is
\* one word with no expansion, and value is then the word's value.
RECURSIVE ShellWord(_, _, _, _, _)
ShellWord(t, i, mode, acc, quoted) ==
    LET bad == [ok |-> FALSE, value |-> <<>>]
    IN  IF i > Len(t)
        THEN IF mode = "plain" /\ (quoted \/ acc # <<>>)
             THEN [ok |-> TRUE, value |-> acc]
             ELSE bad
        ELSE LET c == t[i]
             IN  CASE mode = "single" ->
                        IF c = SQ THEN ShellWord(t, i + 1, "plain", acc, TRUE)
                        ELSE ShellWord(t, i + 1, "single", Append(acc, c), TRUE)
                   [] mode = "double" ->
                        IF c = DQ THEN ShellWord(t, i + 1, "plain", acc, TRUE)
                        ELSE IF c \in {"$", BQ} THEN bad
                        ELSE IF c = "\\" /\ i < Len(t) /\ t[i + 1] \in DQEscapable
                        THEN ShellWord(t, i + 2, "double", Append(acc, t[i + 1]), TRUE)
                        ELSE ShellWord(t, i + 1, "double", Append(acc, c), TRUE)
                   [] OTHER ->
                        IF c = SQ THEN ShellWord(t, i + 1, "single", acc, TRUE)
                        ELSE IF c = DQ THEN ShellWord(t, i + 1, "double", acc, TRUE)
                        ELSE IF c = "\\"
                        THEN IF i < Len(t)
                             THEN ShellWord(t, i + 2, "plain", Append(acc, t[i + 1]), TRUE)
                             ELSE bad
                        ELSE IF c \in ShellMeta \cup {"$", BQ} THEN bad
                        ELSE ShellWord(t, i + 1, "plain", Append(acc, c), quoted)

\* The value of token t when a POSIX shell parses it as exactly one word.
ParsesAsWord(t, v) ==
    /\ ShellWord(t, 1, "plain", <<>>, FALSE).ok
    /\ ShellWord(t, 1, "plain", <<>>, FALSE).value = v

\* C14: for every string s, shellQuote(s) is a token that a POSIX shell
\* parses as exactly one word whose value is s.
C14_QuoteRoundTrip == sqDone => ParsesAsWord(sqOut, sqIn)

\* A string with a single quote, a space and a dollar sign was quoted.
C14_Witness ==
    /\ sqDone
    /\ sqIn = <<SQ, " ", "$">>
    /\ sqOut = <<SQ, SQ, DQ, SQ, DQ, SQ, " ", "$", SQ>>

\* The empty string was quoted.
C14_WitnessEmpty ==
    /\ sqDone
    /\ sqIn = <<>>
    /\ sqOut = <<SQ, SQ>>

-----------------------------------------------------------------------------
(* buildRemoteCommand (internal/connectors/ssh.go)                         *)

\* "cd "
CdPrefix == <<"c", "d", " ">>

\* " && "
AndSep == <<" ", "&", "&", " ">>

\* "exec $SHELL -l"
LoginShell == <<"e", "x", "e", "c", " ", "$", "S", "H", "E", "L", "L", " ", "-", "l">>

\* strings.Join(parts, sep)
RECURSIVE Join(_, _)
Join(parts, sep) ==
    IF parts = <<>> THEN <<>>
    ELSE IF Len(parts) = 1 THEN parts[1]
    ELSE parts[1] \o sep \o Join(Tail(parts), sep)

\* The parts of buildRemoteCommand after the directory clause.
commandParts(parts, remoteDir, remoteCommand) ==
    IF remoteCommand # <<>> THEN Append(parts, remoteCommand)
    ELSE IF remoteDir # <<>> THEN Append(parts, LoginShell)
    ELSE parts

\* buildRemoteCommand(p), of p.RemoteDir and p.RemoteCommand
buildRemoteCommand(remoteDir, remoteCommand) ==
    LET dirParts == IF remoteDir # <<>>
                    THEN <<CdPrefix \o shellQuote(remoteDir)>>
                    ELSE <<>>
        parts == commandParts(dirParts, remoteDir, remoteCommand)
    IN  IF Len(parts) = 0 THEN <<>> ELSE Join(parts, AndSep)

\* Longest RemoteDir and RemoteCommand given to buildRemoteCommand.
MaxDirLen == 2

MaxCmdLen == 3

\* The characters of the RemoteDir and RemoteCommand inputs.
DirChars == {"/", " ", SQ}

CmdChars == {"m", " ", ";", SQ}

InitRemote ==
    /\ LateIdle
    /\ CoreIdle
    /\ ConnectIdle
    /\ PasswordIdle
    /\ RegistryIdle
    /\ QuoteIdle
    /\ rcDir \in StringsOver(DirChars, MaxDirLen)
    /\ rcCmd \in StringsOver(CmdChars, MaxCmdLen)
    /\ rcOut = <<>>
    /\ rcDone = FALSE

\* buildRemoteCommand(p)
DoBuildRemoteCommand ==
    /\ ~rcDone
    /\ rcOut' = buildRemoteCommand(rcDir, rcCmd)
    /\ rcDone' = TRUE
    /\ UNCHANGED <<rcDir, rcCmd>>
    /\ UNCHANGED notRemoteVars

NextRemote == DoBuildRemoteCommand

SpecRemote == InitRemote /\ [][NextRemote]_vars

\* POSIX shell list parsing (XCU 2.9.3 Lists) of command text t from
\* position i: the and-or list is split at the unquoted operators into
\* segments, each with the operator that precedes it ("" for the first).
RECURSIVE ShellList(_, _, _, _, _, _)
ShellList(t, i, mode, op, text, segs) ==
    LET seg == [op |-> op, text |-> text]
    IN  IF i > Len(t)
        THEN [ok |-> mode = "plain", segs |-> Append(segs, seg)]
        ELSE LET c == t[i]
                 two == i < Len(t) /\ t[i + 1] = c
             IN  CASE mode = "single" ->
                        ShellList(t, i + 1, IF c = SQ THEN "plain" ELSE "single",
                                  op, Append(text, c), segs)
                   [] mode = "double" ->
                        IF c = "\\" /\ i < Len(t)
                        THEN ShellList(t, i + 2, "double", op,
                                       text \o <<c, t[i + 1]>>, segs)
                        ELSE ShellList(t, i + 1, IF c = DQ THEN "plain" ELSE "double",
                                       op, Append(text, c), segs)
                   [] OTHER ->
                        IF c = SQ
                        THEN ShellList(t, i + 1, "single", op, Append(text, c), segs)
                        ELSE IF c = DQ
                        THEN ShellList(t, i + 1, "double", op, Append(text, c), segs)
                        ELSE IF c = "\\" /\ i < Len(t)
                        THEN ShellList(t, i + 2, "plain", op,
                                       text \o <<c, t[i + 1]>>, segs)
                        ELSE IF c \in {";", "\n"}
                        THEN ShellList(t, i + 1, "plain", ";", <<>>, Append(segs, seg))
                        ELSE IF c \in {"&", "|"} /\ two
                        THEN ShellList(t, i + 2, "plain",
                                       IF c = "&" THEN "&&" ELSE "||", <<>>,
                                       Append(segs, seg))
                        ELSE IF c \in {"&", "|"}
                        THEN ShellList(t, i + 1, "plain", c, <<>>, Append(segs, seg))
                        ELSE ShellList(t, i + 1, "plain", op, Append(text, c), segs)

\* A segment with no command in it.
BlankText(text) == \A i \in DOMAIN text : text[i] \in {" ", "\t"}

\* The list is well formed: quotes are closed and only a final segment
\* after ; or & may be empty.
ListWellFormed(l) ==
    /\ l.ok
    /\ \A i \in DOMAIN l.segs :
          BlankText(l.segs[i].text) =>
              i = Len(l.segs) /\ l.segs[i].op \in {";", "&"}

\* The segments the shell runs, from segment i on, when the exit status so
\* far is status (TRUE for zero) and prevRan tells whether the segment
\* before ran; a segment that runs is taken to succeed.
RECURSIVE SegmentsRun(_, _, _, _)
SegmentsRun(segs, i, status, prevRan) ==
    IF i > Len(segs) THEN {}
    ELSE LET op == segs[i].op
             runs == /\ ~BlankText(segs[i].text)
                     /\ CASE op = "&&" -> status
                          [] op = "||" -> ~status
                          [] op = "|" -> prevRan
                          [] OTHER -> TRUE
         IN  (IF runs THEN {i} ELSE {})
                 \cup SegmentsRun(segs, i + 1, IF runs THEN TRUE ELSE status, runs)

\* Some command after the leading cd runs although the cd failed.
RunsWhenCdFails(t) ==
    LET l == ShellList(t, 1, "plain", "", <<>>, <<>>)
    IN  /\ ListWellFormed(l)
        /\ SegmentsRun(l.segs, 2, FALSE, TRUE) # {}

\* C13: buildRemoteCommand returns "" when neither field is set, the
\* command alone when only it is set, "cd <quoted dir> && exec $SHELL -l"
\* when only the directory is set and "cd <quoted dir> && <command>" when
\* both are; the command never runs when the cd fails.
C13_RemoteCommandForms ==
    rcDone =>
        LET quoted == shellQuote(rcDir)
        IN  /\ (rcDir = <<>> /\ rcCmd = <<>>) => rcOut = <<>>
            /\ (rcDir = <<>> /\ rcCmd # <<>>) => rcOut = rcCmd
            /\ (rcDir # <<>> /\ rcCmd = <<>>) =>
                  rcOut = CdPrefix \o quoted \o AndSep \o LoginShell
            /\ (rcDir # <<>> /\ rcCmd # <<>>) =>
                  rcOut = CdPrefix \o quoted \o AndSep \o rcCmd
            /\ rcDir # <<>> => ~RunsWhenCdFails(rcOut)

-----------------------------------------------------------------------------
(* Connectors: argument assembly and password injection                    *)
(* (internal/connectors).  An element of an argument vector is the         *)
(* sequence of the strings the code concatenates into it; an environment   *)
(* entry is a record of its name and value.                                *)

\* An argument made of one string.
Arg(x) == <<x>>

\* strconv.Itoa
Itoa(n) == ToString(n)

\* The arguments flag, x for each non-empty x of the list (ssh -L, -R, -D).
RECURSIVE flagArgs(_, _)
flagArgs(list, flag) ==
    IF list = <<>> THEN <<>>
    ELSE (IF Head(list) # "" THEN <<Arg(flag), Arg(Head(list))>> ELSE <<>>)
             \o flagArgs(Tail(list), flag)

\* The arguments -o, prefix+x for each non-empty x of the list.
RECURSIVE optionArgs(_, _)
optionArgs(list, prefix) ==
    IF list = <<>> THEN <<>>
    ELSE (IF Head(list) # "" THEN <<Arg("-o"), <<prefix, Head(list)>>>> ELSE <<>>)
             \o optionArgs(Tail(list), prefix)

\* p.ExtraArgs appended as they are.
extraArgs(p) == [i \in DOMAIN p.ExtraArgs |-> Arg(p.ExtraArgs[i])]

\* The remote command argument of ssh: buildRemoteCommand(p) when not "",
\* as the pieces buildRemoteCommand joins.
remoteCommandArgs(p) ==
    IF p.RemoteDir = "" /\ p.RemoteCommand = "" THEN <<>>
    ELSE IF p.RemoteDir = "" THEN <<Arg(p.RemoteCommand)>>
    ELSE <<<<"cd ", "shellQuote", p.RemoteDir, " && ",
             IF p.RemoteCommand # "" THEN p.RemoteCommand ELSE "exec $SHELL -l">>>>

\* The options that force password authentication (ssh.go:72-76).
passwordAuthArgs ==
    <<Arg("-o"), Arg("PreferredAuthentications=password"),
      Arg("-o"), Arg("PubkeyAuthentication=no"),
      Arg("-o"), Arg("ChallengeResponseAuthentication=no"),
      Arg("-o"), Arg("ConnectTimeout=10")>>

\* sshConnector.Exec takes the password path: a password and no identity file.
usesPassword(p, password) == password # "" /\ p.IdentityFile = ""

\* The arguments sshConnector.Exec assembles.
sshArgs(p, password) ==
    (IF p.Port > 0 THEN <<Arg("-p"), Arg(Itoa(p.Port))>> ELSE <<>>)
    \o (IF p.Username # "" THEN <<Arg("-l"), Arg(p.Username)>> ELSE <<>>)
    \o (IF p.IdentityFile # "" THEN <<Arg("-i"), Arg(p.IdentityFile)>> ELSE <<>>)
    \o (IF p.ProxyJump # "" THEN <<Arg("-J"), Arg(p.ProxyJump)>> ELSE <<>>)
    \o flagArgs(p.LocalForwards, "-L")
    \o flagArgs(p.RemoteForwards, "-R")
    \o flagArgs(p.DynamicForwards, "-D")
    \o optionArgs(p.SetEnv, "SetEnv=")
    \o (IF usesPassword(p, password) THEN passwordAuthArgs ELSE <<>>)
    \o extraArgs(p)
    \o (IF p.RemoteCommand # "" \/ p.RemoteDir # "" THEN <<Arg("-t")>> ELSE <<>>)
    \o <<Arg(p.Host)>>
    \o remoteCommandArgs(p)

\* The target argument of sftp and mosh: user@host or host.
targetArg(p) ==
    IF p.Username # "" THEN <<p.Username, "@", p.Host>> ELSE Arg(p.Host)

\* The arguments sftpConnector.Exec assembles.
sftpArgs(p) ==
    (IF p.Port > 0 THEN <<Arg("-P"), Arg(Itoa(p.Port))>> ELSE <<>>)
    \o (IF p.IdentityFile # "" THEN <<Arg("-i"), Arg(p.IdentityFile)>> ELSE <<>>)
    \o (IF p.ProxyJump # "" THEN <<Arg("-o"), <<"ProxyJump=", p.ProxyJump>>>> ELSE <<>>)
    \o optionArgs(p.LocalForwards, "LocalForward=")
    \o optionArgs(p.RemoteForwards, "RemoteForward=")
    \o optionArgs(p.DynamicForwards, "DynamicForward=")
    \o extraArgs(p)
    \o <<targetArg(p)>>

\* The arguments moshConnector.Exec assembles.
moshArgs(p) ==
    LET sshOpts ==
            (IF p.Port > 0 /\ p.Port # 22 THEN <<" -p ", Itoa(p.Port)>> ELSE <<>>)
            \o (IF p.IdentityFile # "" THEN <<" -i ", p.IdentityFile>> ELSE <<>>)
            \o (IF p.ProxyJump # "" THEN <<" -J ", p.ProxyJump>> ELSE <<>>)
    IN  (IF sshOpts # <<>> THEN <<<<"--ssh=ssh">> \o sshOpts>> ELSE <<>>)
        \o (IF p.MoshServer # "" THEN <<<<"--server=", p.MoshServer>>>> ELSE <<>>)
        \o extraArgs(p)
        \o <<targetArg(p)>>
        \o (IF p.RemoteCommand # "" THEN <<Arg("--"), Arg(p.RemoteCommand)>> ELSE <<>>)

\* The state of a launched subprocess.
Running == [state |-> "running", code |-> 0]

Exited(c) == [state |-> "exited", code |-> c]

\* Killed when the command context was cancelled; ExitCode() is then -1.
Killed == [state |-> "killed", code |-> -1]

\* exec.CommandContext(ctx, prog, argv...) with cmd.Env extended by env,
\* started by util.RunAttached (attached) or by cmd.Run.
Launch(prog, argv, env, attached) ==
    [prog |-> prog, argv |-> argv, env |-> env, attached |-> attached,
     result |-> Running]

\* The stored secrets of the model.
Secrets == {"s3cret", " s3cret"}

\* strings.TrimSpace on the secrets of the model.
trimSecret(password) == IF password = " s3cret" THEN "s3cret" ELSE password

\* The script createSSHAskPassScript writes: the secrets of the model hold
\* none of the characters it escapes.
askPassScript(password) == <<"#!/bin/sh\nprintf '%s\\n' \"", password, "\"\n">>

\* The messages the connectors print to standard error.
MsgSshpassMissing == "Password is stored but 'sshpass' is not installed."

MsgPasswordEmpty == "Warning: Password is empty. You will be prompted."

MsgAuthFailed == "Authentication failed. The stored password may be incorrect."

MsgHostKeyFailed == "Host key verification failed."

MsgScriptFailed == "Warning: Could not create SSH_ASKPASS script. Password will be prompted."

MsgInjectionFailed == "Note: Automatic password injection failed. You will be prompted for the password."

\* What a connector has done when its first subprocess is in flight.
Started(msgs, files, launch) == [msgs |-> msgs, files |-> files, launch |-> launch]

\* sshConnector.execWithPassword up to its first launch; t: the environment.
execWithPassword(args, password, t) ==
    IF password = ""
    THEN Started({MsgPasswordEmpty}, {}, Launch("ssh", args, {}, TRUE))
    ELSE IF t.sshpass
    THEN Started({}, {},
                 Launch("sshpass", <<Arg("-e"), Arg("ssh")>> \o args,
                        {[name |-> "SSHPASS", value |-> trimSecret(password)]},
                        TRUE))
    ELSE IF t.scriptFails
    THEN Started({MsgScriptFailed}, {}, Launch("ssh", args, {}, TRUE))
    ELSE Started({}, {askPassScript(password)},
                 Launch(IF t.setsid THEN "setsid" ELSE "ssh",
                        (IF t.setsid THEN <<Arg("ssh")>> ELSE <<>>) \o args,
                        {[name |-> "SSH_ASKPASS", value |-> "veessh-askpass-*"],
                         [name |-> "DISPLAY", value |-> ":0"],
                         [name |-> "SSH_ASKPASS_REQUIRE", value |-> "force"]},
                        FALSE))

\* sshConnector.Exec up to its first launch.
sshExec(p, password, t) ==
    LET args == sshArgs(p, password)
    IN  IF usesPassword(p, password)
        THEN LET w == execWithPassword(args, password, t)
             IN  Started((IF ~t.sshpass THEN {MsgSshpassMissing} ELSE {}) \cup w.msgs,
                         w.files, w.launch)
        ELSE Started({}, {}, Launch("ssh", args, {}, TRUE))

\* sftpConnector.Exec: the password parameter is ignored.
sftpExec(p, password, t) == Started({}, {}, Launch("sftp", sftpArgs(p), {}, TRUE))

\* moshConnector.Exec: the password parameter is ignored.
moshExec(p, password, t) == Started({}, {}, Launch("mosh", moshArgs(p), {}, TRUE))

\* Connector.Exec of connector conn up to its first launch.
connExec(conn, p, password, t) ==
    CASE conn = "sshConnector" -> sshExec(p, password, t)
      [] conn = "sftpConnector" -> sftpExec(p, password, t)
      [] conn = "moshConnector" -> moshExec(p, password, t)

\* context.Canceled
Canceled == [kind |-> "canceled", code |-> 0]

\* *exec.ExitError with ExitCode() = c
ExitError(c) == [kind |-> "exit", code |-> c]

\* Any other error, by its text.
OtherError(text) == [kind |-> text, code |-> 0]

\* util.RunAttached: nil for exit status zero, *exec.ExitError for a
\* non-zero one, the cancellation outcome when the context is cancelled.
RunAttached(result) ==
    CASE result.state = "killed" -> Canceled
      [] result.state = "exited" /\ result.code = 0 -> ErrNil
      [] OTHER -> ExitError(result.code)

\* The hints execWithPassword prints after sshpass fails.
sshpassHints(launch, err) ==
    IF launch.prog = "sshpass" /\ err.kind = "exit"
    THEN CASE err.code = 5 -> {MsgAuthFailed}
           [] err.code = 6 -> {MsgHostKeyFailed}
           [] OTHER -> {}
    ELSE {}

-----------------------------------------------------------------------------
(* Specification: veessh connect <name> [--no-forward]                     *)
(* (internal/cli/connect.go, cli.Execute, main)                            *)

\* The messages of the connect command and of main.
MsgGetPasswordFailed == "Warning: failed to retrieve password"

MsgSaveFailed == "warning: failed to update usage stats"

MsgOkExiting == "ok. exiting"

MsgError == "the error returned by cli.Execute"

\* The error cmdConnect.RunE returns after conn.Exec returned err, which
\* cli.Execute returns unchanged.
connectReturns(err) == IF err.kind = "canceled" THEN Canceled ELSE err

\* The exit code cmdConnect.RunE records in the audit entry.
auditExitCode(err) == IF err.kind = "exit" THEN err.code ELSE 0

\* main that exits with the generic failure status on every error.
mainExitGeneric(err) == IF err = ErrNil THEN 0 ELSE 1

\* The exit status main ends the process with.
mainExit(err) ==
    IF err = ErrNil THEN 0 ELSE IF err.kind = "canceled" THEN 130 ELSE 1

\* What main prints for the error cli.Execute returned.
mainPrints(err) ==
    IF err = ErrNil THEN {} ELSE IF err.kind = "canceled" THEN {MsgOkExiting}
    ELSE {MsgError}

\* The usage update that leaves the use count as it was.
updateUsageNoCount(cfg, p, t) == MapSet(cfg, p.Name, [p EXCEPT !.LastUsed = t])

\* p.LastUsed = time.Now(); p.UseCount++; cfg.UpsertProfile(p)
updateUsage(cfg, p, t) ==
    MapSet(cfg, p.Name, [p EXCEPT !.LastUsed = t, !.UseCount = @ + 1])

\* --no-forward: the three forward lists of p set to nil.
noForward(p) ==
    [p EXCEPT !.LocalForwards = <<>>, !.RemoteForwards = <<>>,
              !.DynamicForwards = <<>>]

\* One audit entry.
AuditEntry(action, code, err) == [action |-> action, exitCode |-> code, err |-> err]

\* The command ends before any connector is run: RunE returns err.
EndEarly(err) ==
    /\ cp' = ZeroProfile
    /\ cPassword' = ""
    /\ launches' = <<>>
    /\ tmpFiles' = {}
    /\ stderrMsgs' = mainPrints(err)
    /\ execErr' = ErrNil
    /\ cmdErr' = err
    /\ exitStatus' = mainExit(err)
    /\ auditLog' = <<>>
    /\ cpc' = "exited"
    /\ UNCHANGED profiles

\* The rest of cmdConnect.RunE once conn.Exec has returned err after
\* printing msgs, then cli.Execute and main.
AfterExec(err, msgs) ==
    LET saved == err = ErrNil /\ ~tools.saveFails
    IN  /\ execErr' = err
        /\ cmdErr' = connectReturns(err)
        /\ auditLog' = Append(auditLog,
                              AuditEntry("disconnect", auditExitCode(err), err))
        /\ profiles' = IF saved THEN updateUsage(cBefore, cp, now) ELSE profiles
        /\ stderrMsgs' = stderrMsgs \cup msgs
                            \cup (IF err = ErrNil /\ tools.saveFails
                                  THEN {MsgSaveFailed} ELSE {})
                            \cup mainPrints(connectReturns(err))
        /\ exitStatus' = mainExit(connectReturns(err))
        /\ cpc' = "exited"

\* The registry once every init function has run and main has started.
RegistryStarted ==
    /\ registry = [pr \in ValidProtocols |->
                     (CHOOSE f \in InitFuncs : f.protocol = pr).connector]
    /\ initsRun = <<"gcloudConnector", "moshConnector", "sftpConnector",
                    "sshConnector", "ssmConnector", "telnetConnector">>
    /\ started = TRUE
    /\ GetStart

\* The stored profile the command connects with, and its parent.
ConnectProfile(pr, idf, fwd, ext, uc) ==
    [ZeroProfile EXCEPT !.Name = "a", !.Protocol = pr, !.Host = "h",
                        !.IdentityFile = idf, !.LocalForwards = fwd,
                        !.Extends = ext, !.UseCount = uc,
                        !.LastUsed = IF uc = 0 THEN 0 ELSE 1]

ParentProfile ==
    [ZeroProfile EXCEPT !.Name = "b", !.Protocol = ProtocolSSH, !.Host = "hb",
                        !.Username = "root",
                        !.RemoteForwards = <<"9090:localhost:90">>]

\* The protocols of the stored profile: three with a connector, one without.
ConnectProtocols == {ProtocolSSH, ProtocolSFTP, ProtocolMosh, "rdp"}

\* The results of credentials.GetPassword: nothing stored, a secret, an error.
GetPasswordResults ==
    {[password |-> "", err |-> ""], [password |-> "", err |-> "backend error"]}
        \cup {[password |-> x, err |-> ""] : x \in Secrets}

\* The exit statuses of the launched tools.
ExitCodes == {0, 1, 5, 6, 255}

InitConnect ==
    /\ LateIdle
    /\ arg = ""
    /\ found = FALSE
    /\ ret = ZeroProfile
    /\ ResolveIdle
    /\ ValidateIdle
    /\ BackendIdle
    /\ PasswordIdle
    /\ QuoteIdle
    /\ RemoteIdle
    /\ RegistryStarted
    /\ ConnectStart
    /\ now = 2
    /\ tools \in [sshpass : BOOLEAN, setsid : BOOLEAN, scriptFails : BOOLEAN,
                  saveFails : BOOLEAN]
    /\ \E pr \in ConnectProtocols, idf \in {"", "id_ed25519"},
          fwd \in {<<>>, <<"8080:localhost:80">>}, ext \in {"", "b"},
          uc \in {0, 3} :
            profiles = [n \in {"a", "b"} |->
                          IF n = "a" THEN ConnectProfile(pr, idf, fwd, ext, uc)
                          ELSE ParentProfile]

\* veessh connect name [--no-forward], up to the first launch of the
\* connector; gp: what credentials.GetPassword returns.
StartConnect(name, nf, gp) ==
    /\ cpc = "idle"
    /\ cName' = name
    /\ cNoForward' = nf
    /\ cBefore' = profiles
    /\ interrupted' = FALSE
    /\ now' = now + 1
    /\ UNCHANGED tools
    /\ LET g == GetProfile(profiles, name)
           p == IF nf THEN noForward(g[1]) ELSE g[1]
           c == connectorGet(registry, p.Protocol)
           st == connExec(c.conn, p, gp.password, tools)
       IN  IF ~g[2] THEN EndEarly(OtherError("profile not found"))
           ELSE IF c.err # "" THEN EndEarly(OtherError(c.err))
           ELSE /\ cp' = p
                /\ cPassword' = gp.password
                /\ launches' = <<st.launch>>
                /\ tmpFiles' = st.files
                /\ stderrMsgs' = st.msgs \cup (IF gp.err # ""
                                               THEN {MsgGetPasswordFailed} ELSE {})
                /\ auditLog' = <<AuditEntry("connect", 0, ErrNil)>>
                /\ cpc' = "first"
                /\ UNCHANGED <<profiles, execErr, cmdErr, exitStatus>>
    /\ UNCHANGED notConnectVars

\* The launches with the state of the last one set.
lastLaunchResult(ls, result) == [ls EXCEPT ![Len(ls)].result = result]

\* The subprocess in flight exits with status c.
SubprocessExits(c) ==
    /\ cpc \in {"first", "second"}
    /\ now' = now + 1
    /\ LET l == launches[Len(launches)]
           err == RunAttached(Exited(c))
       IN  IF l.attached
           THEN /\ launches' = lastLaunchResult(launches, Exited(c))
                /\ AfterExec(err, sshpassHints(l, err))
           ELSE IF c = 0
           THEN /\ launches' = lastLaunchResult(launches, Exited(c))
                /\ AfterExec(ErrNil, {})
           ELSE /\ launches' = Append(lastLaunchResult(launches, Exited(c)),
                                      Launch("ssh", sshArgs(cp, cPassword), {}, TRUE))
                /\ stderrMsgs' = stderrMsgs \cup {MsgInjectionFailed}
                /\ cpc' = "second"
                /\ UNCHANGED <<profiles, execErr, cmdErr, exitStatus, auditLog>>
    /\ UNCHANGED <<cName, cNoForward, cBefore, cp, cPassword, tools, tmpFiles,
                   interrupted>>
    /\ UNCHANGED notConnectVars

\* The operator interrupts the process while the subprocess is in flight:
\* the command context is cancelled and the subprocess killed.  After
\* cmd.Run fails, the second launch finds its context cancelled already.
Interrupt ==
    /\ cpc \in {"first", "second"}
    /\ now' = now + 1
    /\ interrupted' = TRUE
    /\ launches' = lastLaunchResult(launches, Killed)
    /\ LET l == launches[Len(launches)]
       IN  IF l.attached
           THEN AfterExec(RunAttached(Killed), {})
           ELSE AfterExec(RunAttached(Killed), {MsgInjectionFailed})
    /\ UNCHANGED <<cName, cNoForward, cBefore, cp, cPassword, tools, tmpFiles>>
    /\ UNCHANGED notConnectVars

NextConnect ==
    \/ \E name \in {"a", "zz"}, nf \in BOOLEAN, gp \in GetPasswordResults :
            StartConnect(name, nf, gp)
    \/ \E c \in ExitCodes : SubprocessExits(c)
    \/ Interrupt

SpecConnect == InitConnect /\ [][NextConnect]_vars

\* Connector.Exec was called by the connect command.
ExecCalled == cpc # "idle" /\ launches # <<>>

\* The password, as stored or trimmed, is one of the pieces of x.
HoldsSecret(x) ==
    \E i \in DOMAIN x : x[i] = cPassword \/ x[i] = trimSecret(cPassword)

\* C15: a non-empty stored secret used by the ssh connector is handed to
\* the launched subprocess only through an environment variable: it is
\* never an element of the argument vector of a launched process, nor
\* written anywhere else.
C15_SecretOnlyInEnvironment ==
    (ExecCalled /\ cp.Protocol = ProtocolSSH /\ cPassword # "") =>
        /\ \A i \in DOMAIN launches :
              \A j \in DOMAIN launches[i].argv : ~HoldsSecret(launches[i].argv[j])
        /\ \A f \in tmpFiles : ~HoldsSecret(f)

\* The secret reached a launched tool: in its environment, or through the
\* askpass script its environment names.
Injected ==
    \E i \in DOMAIN launches :
        \E e \in launches[i].env :
            \/ e.value = trimSecret(cPassword)
            \/ e.name = "SSH_ASKPASS" /\ \E f \in tmpFiles : HoldsSecret(f)

\* The user was told that the stored secret is not used.
ToldNotUsed ==
    stderrMsgs \cap {MsgSshpassMissing, MsgPasswordEmpty, MsgScriptFailed,
                     MsgInjectionFailed} # {}

\* C16: whenever Exec is called with a non-empty secret that is not
\* injected into the launched tool, the user is told that the secret was
\* not used.
C16_NeverSilentlyDropped ==
    (ExecCalled /\ cPassword # "" /\ ~Injected) => ToldNotUsed

\* C17: an interrupt while a connector subprocess is in flight is reported
\* as context.Canceled by the connector, the connect command and Execute,
\* and the process prints "ok. exiting" and exits with status 130.
C17_CancelExits130 ==
    (cpc = "exited" /\ interrupted) =>
        /\ execErr = Canceled
        /\ cmdErr = Canceled
        /\ MsgOkExiting \in stderrMsgs
        /\ exitStatus = 130

\* The subprocess of an ssh connect with sshpass was interrupted.
C17_Witness ==
    /\ cpc = "exited"
    /\ interrupted
    /\ Len(launches) = 1
    /\ launches[1].prog = "sshpass"
    /\ launches[1].result = Killed
    /\ exitStatus = 130

\* The askpass launch was interrupted.
C17_WitnessAskpass ==
    /\ cpc = "exited"
    /\ interrupted
    /\ ~launches[1].attached
    /\ exitStatus = 130

\* C18: when a launched tool exits with a non-zero code c, Exec returns an
\* error carrying c, the connect command returns that same error and
\* records c in the audit entry: the launch is not reported as success
\* and its code is not replaced by the result of another launch.
C18_ExitCodePreserved ==
    cpc = "exited" =>
        \A i \in DOMAIN launches :
            LET r == launches[i].result
            IN  (r.state = "exited" /\ r.code # 0) =>
                    /\ execErr = ExitError(r.code)
                    /\ cmdErr = execErr
                    /\ auditLog[Len(auditLog)].exitCode = r.code

\* The connect command ran its connector to the end.
ConnectDone == cpc = "exited" /\ launches # <<>>

\* The stored profile's use count went up by one and its last use was set.
UsageCounted ==
    /\ profiles[cName].UseCount = cBefore[cName].UseCount + 1
    /\ profiles[cName].LastUsed > cBefore[cName].LastUsed

\* C19 as stated: after a connect whose subprocess succeeds the stored use
\* count is the previous one plus one and the last use is updated; after
\* a connect that fails or is cancelled the stored config is unchanged.
C19_UsageCounted ==
    ConnectDone =>
        /\ execErr = ErrNil => UsageCounted
        /\ execErr # ErrNil => profiles = cBefore

\* C19 as amended: the use count goes up by one when the subprocess
\* succeeds and the config is saved; when the save fails a warning is
\* printed and the stored config is unchanged, as it is after a connect
\* that fails or is cancelled.
C19_UsageCountedWhenSaved ==
    ConnectDone =>
        /\ (execErr = ErrNil /\ ~tools.saveFails) => UsageCounted
        /\ (execErr = ErrNil /\ tools.saveFails) =>
              (profiles = cBefore /\ MsgSaveFailed \in stderrMsgs)
        /\ execErr # ErrNil => profiles = cBefore

\* A profile used three times was connected to and saved.
C19_Witness ==
    /\ ConnectDone
    /\ execErr = ErrNil
    /\ ~tools.saveFails
    /\ cBefore["a"].UseCount = 3
    /\ profiles["a"].UseCount = 4

\* A connect failed with status 255 and left the config alone.
C19_WitnessFailed ==
    /\ ConnectDone
    /\ execErr = ExitError(255)
    /\ profiles = cBefore

\* C20: after connect --no-forward the local, remote and dynamic forward
\* lists of the stored profile are what they were before the command.
C20_NoForwardKeepsStored ==
    (cpc = "exited" /\ cNoForward /\ cName \in DOMAIN cBefore) =>
        /\ profiles[cName].LocalForwards = cBefore[cName].LocalForwards
        /\ profiles[cName].RemoteForwards = cBefore[cName].RemoteForwards
        /\ profiles[cName].DynamicForwards = cBefore[cName].DynamicForwards

-----------------------------------------------------------------------------
(* Specification: the commands that write profiles (add, edit, clone,      *)
(* favorite) and the interactive connects (pick, veessh without arguments) *)
(* (internal/cli).  One behaviour runs one command on a stored             *)
(* configuration.                                                          *)

\* What the profile commands leave alone: all but the stored configuration.
notCliVars ==
    <<arg, found, ret, resolveVars, validateVars, backendVars, passwordVars,
      registryVars, quoteVars, remoteVars, connectVars, composeVars, tailVars>>

\* The characters of a name or host of the stored configurations: the
\* empty string, a blank, or a word without white space.
CharsOf(s) == IF s = "" THEN <<>> ELSE IF s = " " THEN <<" ">> ELSE <<"h">>

\* (&p).Validate() on a profile of a stored configuration:
\* <<the profile afterwards, the error ("" for nil)>>.
validateStored(p) ==
    LET r == Validate([p EXCEPT !.Name = CharsOf(p.Name), !.Host = CharsOf(p.Host)])
    IN  <<[p EXCEPT !.Port = r[1].Port], r[2]>>

\* strings.ToLower on the protocols given to add.
ToLower(s) == IF s = "SSH" THEN "ssh" ELSE s

\* A flag of a command: <<>> when not given, <<v>> when given with value v.
NoFlag == <<>>

\* if cmd.Flags().Changed(flag) { field = value }
flagOr(flag, field) == IF flag # NoFlag THEN flag[1] ELSE field

\* What a command has done when it returns: cfg.Profiles in its memory, the
\* stored configuration, its error and the profiles it gave to Exec.
Out(mem, stored, err, exec) ==
    [mem |-> mem, stored |-> stored, err |-> err, exec |-> exec]

ErrSaveFailed == "failed to write config"

\* cfg.UpsertProfile(p); config.Save(cfgPath, cfg), the error returned.
upsertAndSave(cfg, p, saveOk) ==
    LET m == MapSet(cfg, p.Name, p)
    IN  IF saveOk THEN Out(m, m, "", <<>>) ELSE Out(m, cfg, ErrSaveFailed, <<>>)

\* cmdAdd.RunE
cmdAdd(cfg, name, protocol, host, port, saveOk) ==
    LET p == [ZeroProfile EXCEPT !.Name = name, !.Protocol = ToLower(protocol),
                                 !.Host = host, !.Port = port, !.UseAgent = TRUE]
        v == validateStored(p)
    IN  IF v[2] # "" THEN Out(cfg, cfg, v[2], <<>>)
        ELSE upsertAndSave(cfg, v[1], saveOk)

\* Mutant: the profile is stored before it is validated.
cmdEditUpsertFirst(cfg, name, host, port, user, saveOk) ==
    LET g == GetProfile(cfg, name)
        p == [g[1] EXCEPT !.Host = flagOr(host, @), !.Port = flagOr(port, @),
                          !.Username = flagOr(user, @)]
        v == validateStored(p)
    IN  IF ~g[2] THEN Out(cfg, cfg, "profile not found", <<>>)
        ELSE IF v[2] # "" THEN Out(MapSet(cfg, name, p), cfg, v[2], <<>>)
        ELSE upsertAndSave(cfg, v[1], saveOk)

\* cmdEdit.RunE with the flags --host, --port and --user.
cmdEdit(cfg, name, host, port, user, saveOk) ==
    LET g == GetProfile(cfg, name)
        p == [g[1] EXCEPT !.Host = flagOr(host, @), !.Port = flagOr(port, @),
                          !.Username = flagOr(user, @)]
        v == validateStored(p)
    IN  IF ~g[2] THEN Out(cfg, cfg, "profile not found", <<>>)
        ELSE IF v[2] # "" THEN Out(cfg, cfg, v[2], <<>>)
        ELSE upsertAndSave(cfg, v[1], saveOk)

\* cmdClone.RunE with the flag --host.
cmdClone(cfg, source, newName, host, saveOk) ==
    LET g == GetProfile(cfg, source)
        p == [g[1] EXCEPT !.Name = newName, !.UseCount = 0, !.Favorite = FALSE,
                          !.Host = flagOr(host, @)]
        v == validateStored(p)
    IN  IF ~g[2] THEN Out(cfg, cfg, "source profile not found", <<>>)
        ELSE IF GetProfile(cfg, newName)[2]
        THEN Out(cfg, cfg, "profile already exists", <<>>)
        ELSE IF v[2] # "" THEN Out(cfg, cfg, v[2], <<>>)
        ELSE upsertAndSave(cfg, v[1], saveOk)

\* cmdFavorite.RunE
cmdFavorite(cfg, name, unset, saveOk) ==
    LET g == GetProfile(cfg, name)
    IN  IF ~g[2] THEN Out(cfg, cfg, "profile not found", <<>>)
        ELSE upsertAndSave(cfg, [g[1] EXCEPT !.Favorite = ~unset], saveOk)

\* Config.ListProfiles: the stored profiles as they are stored (the order
\* of the list does not matter to the choice made in it).
ListProfiles(cfg) == {cfg[n] : n \in DOMAIN cfg}

\* ui.PickProfileInteractive without filters; choice: the name the operator
\* selects, or "" when the operator interrupts the prompt.
PickProfileInteractive(cfg, choice) ==
    IF ListProfiles(cfg) = {} THEN [p |-> ZeroProfile, err |-> "no profiles found"]
    ELSE IF choice = "" THEN [p |-> ZeroProfile, err |-> "context canceled"]
    ELSE [p |-> CHOOSE q \in ListProfiles(cfg) : q.Name = choice, err |-> ""]

\* The connection of the picked profile p and the usage update after it
\* (cmdPick.RunE after the pick, executeConnection); execOk: Connector.Exec
\* returns nil.  A failing save is reported as a warning only.
connectPicked(cfg, reg, p, execOk, saveOk) ==
    LET c == connectorGet(reg, p.Protocol)
        m == updateUsage(cfg, p, p.LastUsed + 1)
    IN  IF c.err # "" THEN Out(cfg, cfg, c.err, <<>>)
        ELSE IF ~execOk THEN Out(cfg, cfg, "exit status 1", <<p>>)
        ELSE Out(m, IF saveOk THEN m ELSE cfg, "", <<p>>)

\* cmdPick.RunE, and runInteractive on a configuration that holds profiles.
cmdPick(cfg, reg, choice, execOk, saveOk) ==
    LET k == PickProfileInteractive(cfg, choice)
    IN  IF k.err # "" THEN Out(cfg, cfg, k.err, <<>>)
        ELSE connectPicked(cfg, reg, k.p, execOk, saveOk)

\* The stored profile "a" of the configurations the commands run on.
CliChild(ext, proto, host, user) ==
    [ZeroProfile EXCEPT !.Name = "a", !.Extends = ext, !.Protocol = proto,
                        !.Host = host, !.Username = user, !.UseCount = 3,
                        !.LastUsed = 1]

\* The stored profile "b", which "a" may extend.
CliParent ==
    [ZeroProfile EXCEPT !.Name = "b", !.Protocol = ProtocolSSH, !.Host = "hb",
                        !.Username = "root", !.Port = 2201,
                        !.IdentityFile = "id_ed25519"]

InitCli ==
    /\ arg = ""
    /\ found = FALSE
    /\ ret = ZeroProfile
    /\ ResolveIdle
    /\ ValidateIdle
    /\ BackendIdle
    /\ PasswordIdle
    /\ QuoteIdle
    /\ RemoteIdle
    /\ ConnectIdle
    /\ TailIdle
    /\ RegistryStarted
    /\ CliIdle
    /\ ComposeIdle
    /\ \E ext \in {"", "b", "zz"}, proto \in {"", ProtocolSSH},
          host \in {"", "h"}, user \in {"", "u"} :
            profiles = [n \in {"a", "b"} |->
                          IF n = "a" THEN CliChild(ext, proto, host, user)
                          ELSE CliParent]

\* The command cmd given name returns with out.
RunCommand(cmd, name, out) ==
    /\ kCmd = ""
    /\ kCmd' = cmd
    /\ kName' = name
    /\ kBefore' = profiles
    /\ kMem' = out.mem
    /\ kErr' = out.err
    /\ kExec' = out.exec
    /\ profiles' = out.stored
    /\ UNCHANGED notCliVars

HostFlags == {NoFlag, <<"">>, <<" ">>, <<"h2">>}

\* veessh add name --type protocol --host host --port port
DoAdd(name, protocol, host, port, saveOk) ==
    RunCommand("add", name, cmdAdd(profiles, name, protocol, host, port, saveOk))

\* veessh edit name [--host h] [--port n] [--user u]
DoEdit(name, host, port, user, saveOk) ==
    RunCommand("edit", name, cmdEdit(profiles, name, host, port, user, saveOk))

\* veessh clone source newName [--host h]
DoClone(source, newName, host, saveOk) ==
    RunCommand("clone", newName, cmdClone(profiles, source, newName, host, saveOk))

\* veessh favorite name [--unset]
DoFavorite(name, unset, saveOk) ==
    RunCommand("favorite", name, cmdFavorite(profiles, name, unset, saveOk))

\* veessh pick
DoPick(choice, execOk, saveOk) ==
    RunCommand("pick", choice, cmdPick(profiles, registry, choice, execOk, saveOk))

\* veessh (no arguments)
DoRoot(choice, execOk, saveOk) ==
    /\ DOMAIN profiles # {}
    /\ RunCommand("root", choice, cmdPick(profiles, registry, choice, execOk, saveOk))

NextCli ==
    \/ \E name \in {"a", "n", " "}, protocol \in {ProtocolSSH, "SSH", "ftp", ""},
          host \in {"", " ", "h"}, port \in {0, 2222}, saveOk \in BOOLEAN :
            DoAdd(name, protocol, host, port, saveOk)
    \/ \E name \in {"a", "n"}, host \in HostFlags, port \in {NoFlag, <<0>>, <<2222>>},
          user \in {NoFlag, <<"u2">>}, saveOk \in BOOLEAN :
            DoEdit(name, host, port, user, saveOk)
    \/ \E source \in {"a", "n"}, newName \in {"n", "b", " "}, host \in HostFlags,
          saveOk \in BOOLEAN :
            DoClone(source, newName, host, saveOk)
    \/ \E name \in {"a", "n"}, unset \in BOOLEAN, saveOk \in BOOLEAN :
            DoFavorite(name, unset, saveOk)
    \/ \E choice \in {"a", "b", ""}, execOk \in BOOLEAN, saveOk \in BOOLEAN :
            DoPick(choice, execOk, saveOk)
    \/ \E choice \in {"a", "b", ""}, execOk \in BOOLEAN, saveOk \in BOOLEAN :
            DoRoot(choice, execOk, saveOk)

SpecCli == InitCli /\ [][NextCli]_vars

\* The errors Validate returns.
ValidateErrors == {"profile name is required", "unsupported protocol", "host is required"}

\* C21: when Validate rejects the profile in add, edit or clone, the
\* configuration in the command's memory and the stored configuration are
\* what they were before the command.
C21_RejectedLeavesConfig ==
    (kCmd \in {"add", "edit", "clone"} /\ kErr \in ValidateErrors) =>
        (kMem = kBefore /\ profiles = kBefore)

\* edit --host " " was rejected by Validate.
C21_Witness ==
    /\ kCmd = "edit"
    /\ kName = "a"
    /\ kErr = "host is required"
    /\ kBefore["a"].Host = "h"
    /\ profiles = kBefore

\* clone was rejected by Validate.
C21_WitnessClone == kCmd = "clone" /\ kErr \in ValidateErrors

\* Profile p is stored profile s of configuration cfg resolved for use:
\* extends is empty and every overridable field holds the value of s or,
\* when s leaves it empty, the value of the nearest ancestor that sets it.
ResolvedFrom(cfg, s, p) ==
    /\ p.Extends = ""
    /\ \A f \in OverridableFields : p[f] = NearestValue(cfg, s.Name, f)

\* C23: every profile a pick or an argument-less veessh passes to
\* Connector.Exec has extends resolved to empty and its inherited fields
\* populated from its ancestor chain.
C23_ExecGetsResolvedProfile ==
    \A i \in DOMAIN kExec :
        ResolvedFrom(kBefore, kBefore[kExec[i].Name], kExec[i])

\* The fields that edit --host --port --user, favorite and the usage
\* update do not target.
UntargetedFields == OverridableFields \ {"Host", "Port", "Username"}

\* C28: edit and favorite leave the stored extends pointer as it was, and
\* every field they do not target that the stored profile left empty stays
\* empty.
C28_InheritanceKept ==
    (kCmd \in {"edit", "favorite"} /\ kErr = "" /\ kName \in DOMAIN kBefore) =>
        /\ profiles[kName].Extends = kBefore[kName].Extends
        /\ \A f \in UntargetedFields :
              kBefore[kName][f] = ZeroOf(f) => profiles[kName][f] = ZeroOf(f)

\* C25: one call of Connector.Exec launches the underlying tool at most
\* once, whatever the outcome of that launch and whichever way the
\* password is injected.
C25_LaunchedAtMostOnce == ExecCalled => Len(launches) <= 1

-----------------------------------------------------------------------------
(* Claims about the cached backend                                         *)

\* A getBackend call that finds a cached instance.
CachedCall == DoGetBackend /\ currentBackend # BackendNil

\* C22: a getBackend call that finds a cached instance returns it without
\* reading the override variable, the persisted default or availability;
\* only SetBackendType takes a cached instance away, it always does, and
\* the getBackend call after it resolves again.
C22_CacheReusedUntilReset ==
    [][/\ CachedCall =>
            /\ gbRet' = currentBackend
            /\ gbErr' = ""
            /\ ~gbResolved'
            /\ ~gbReadDefault'
            /\ gbTried' = {}
            /\ currentBackend' = currentBackend
       /\ (currentBackend # BackendNil /\ currentBackend' # currentBackend) =>
            \E bt \in ValidBackends : DoSetBackendType(bt)
       /\ (\E bt \in ValidBackends : DoSetBackendType(bt)) =>
            currentBackend' = BackendNil
       /\ ResolvingCall => gbResolved']_vars

\* The keyring instance was returned from the cache although the 1Password
\* CLI had become available and auto mode would now choose it.
C22_Witness ==
    /\ currentBackend = BackendKeyring
    /\ gbRet = BackendKeyring
    /\ ~gbResolved
    /\ envBackend = ""
    /\ cfgDefault = ""
    /\ forcedType = BackendAuto
    /\ opAvailable

\* A call resolved again after SetBackendType had discarded the instance.
C22_WitnessReset ==
    /\ gbResolved
    /\ forcedType = BackendFile
    /\ envBackend = ""
    /\ cfgDefault = ""
    /\ gbRet = BackendFile

\* C29: the outcome of a getBackend call that finds no cached instance is
\* the one the current override variable, the current persisted default
\* (or, when neither selects, the type given to SetBackendType, auto by
\* default) and current availability give: earlier calls do not matter.
C29_OutcomeFromCurrentSelection ==
    [][ResolvingCall =>
          LET t == IF UserSelection # "" THEN UserSelection ELSE forcedType
              r == initBackend(t, opAvailable, krOpens, ~fileFails)
          IN  gbRet' = r.backend /\ gbErr' = r.err]_vars

-----------------------------------------------------------------------------
(* Composite command strings: the ssh remote command, mosh's --ssh string, *)
(* rsync's -e string and the tmux ssh command.  A string is a sequence of  *)
(* one-character strings; a fixed word of the code ("ssh", "-i") is one    *)
(* element.                                                                *)

\* What composing a string leaves alone.
notComposeVars == <<coreVars, passwordVars, registryVars, quoteVars, remoteVars,
                    connectVars, cliVars, tailVars>>

\* strings.ContainsAny(s, chars)
ContainsAny(s, chars) == \E i \in DOMAIN s : s[i] \in chars

\* shellQuoteForRsync: s as it is unless it holds a blank, a tab, a quote,
\* a backslash, $, a backquote or !.
shellQuoteForRsync(s) ==
    IF ~ContainsAny(s, {" ", "\t", SQ, DQ, "\\", "$", BQ, "!"}) THEN s
    ELSE <<SQ>> \o ReplaceAll(s, SQ, <<SQ, DQ, SQ, DQ, SQ>>) \o <<SQ>>

\* The sshArgs string of moshConnector.Exec after "--ssh=ssh", for a port
\* that is 0 or 22.
moshSSHString(p) ==
    <<"ssh">>
    \o (IF p.IdentityFile # <<>> THEN <<" ", "-i", " ">> \o p.IdentityFile ELSE <<>>)
    \o (IF p.ProxyJump # <<>> THEN <<" ", "-J", " ">> \o p.ProxyJump ELSE <<>>)

\* The -e string of executeRsync, for a port that is 0 or 22.
rsyncSSHString(p) ==
    Join(<<<<"ssh">>>>
         \o (IF p.IdentityFile # <<>>
             THEN <<<<"-i">>, shellQuoteForRsync(p.IdentityFile)>> ELSE <<>>)
         \o (IF p.ProxyJump # <<>>
             THEN <<<<"-J">>, shellQuoteForRsync(p.ProxyJump)>> ELSE <<>>),
         <<" ">>)

\* The args of buildSSHCommand, for a port that is 0 or 22.
buildSSHCommandArgs(p) ==
    <<<<"ssh">>>>
    \o (IF p.Username # <<>> THEN <<<<"-l">>, p.Username>> ELSE <<>>)
    \o (IF p.IdentityFile # <<>> THEN <<<<"-i">>, p.IdentityFile>> ELSE <<>>)
    \o (IF p.ProxyJump # <<>> THEN <<<<"-J">>, p.ProxyJump>> ELSE <<>>)
    \o <<p.Host>>

\* buildSSHCommand(p) of the tmux command
buildSSHCommand(p) == Join(buildSSHCommandArgs(p), <<" ">>)

\* The composite string of a site for profile p.
composite(site, p) ==
    CASE site = "remote" -> buildRemoteCommand(p.RemoteDir, <<>>)
      [] site = "mosh" -> moshSSHString(p)
      [] site = "rsync" -> rsyncSSHString(p)
      [] site = "tmux" -> buildSSHCommand(p)

\* Longest value interpolated.
MaxValueLen == 2

\* The characters of the interpolated values.
ValueChars == {" ", SQ, DQ, "$", BQ, ";", "|", "&", "a"}

\* The fields each site interpolates.
SiteFields ==
    [remote |-> {"RemoteDir"}, mosh |-> {"IdentityFile", "ProxyJump"},
     rsync |-> {"IdentityFile", "ProxyJump"},
     tmux |-> {"Username", "IdentityFile", "ProxyJump", "Host"}]

\* The profile whose field holds value: the host is "h" otherwise, the
\* other fields are empty.
FieldProfile(field, value) ==
    [f \in {"Username", "IdentityFile", "ProxyJump", "Host", "RemoteDir"} |->
        IF f = field THEN value ELSE IF f = "Host" THEN <<"h">> ELSE <<>>]

InitCompose ==
    /\ CoreIdle
    /\ PasswordIdle
    /\ RegistryIdle
    /\ QuoteIdle
    /\ RemoteIdle
    /\ ConnectIdle
    /\ CliIdle
    /\ TailIdle
    /\ csSite \in DOMAIN SiteFields
    /\ csField \in SiteFields[csSite]
    /\ csValue \in StringsOver(ValueChars, MaxValueLen) \ {<<>>}
    /\ csOut = <<>>
    /\ csDone = FALSE

\* The command string of csSite is built for the profile.
DoCompose ==
    /\ ~csDone
    /\ csOut' = composite(csSite, FieldProfile(csField, csValue))
    /\ csDone' = TRUE
    /\ UNCHANGED <<csSite, csField, csValue>>
    /\ UNCHANGED notComposeVars

NextCompose == DoCompose

SpecCompose == InitCompose /\ [][NextCompose]_vars

\* POSIX shell parsing of the simple command t into its words, from
\* position i: mode is plain, single or double, acc the current word and
\* begun whether it has started.  The result is not ok when a quote is left
\* open or an unquoted operator or expansion occurs.
RECURSIVE ShellWords(_, _, _, _, _, _)
ShellWords(t, i, mode, acc, begun, words) ==
    LET bad == [ok |-> FALSE, words |-> <<>>]
    IN  IF i > Len(t)
        THEN IF mode = "plain"
             THEN [ok |-> TRUE,
                   words |-> IF begun THEN Append(words, acc) ELSE words]
             ELSE bad
        ELSE LET c == t[i]
             IN  CASE mode = "single" ->
                        IF c = SQ THEN ShellWords(t, i + 1, "plain", acc, TRUE, words)
                        ELSE ShellWords(t, i + 1, "single", Append(acc, c), TRUE, words)
                   [] mode = "double" ->
                        IF c = DQ THEN ShellWords(t, i + 1, "plain", acc, TRUE, words)
                        ELSE IF c \in {"$", BQ} THEN bad
                        ELSE IF c = "\\" /\ i < Len(t) /\ t[i + 1] \in DQEscapable
                        THEN ShellWords(t, i + 2, "double", Append(acc, t[i + 1]),
                                        TRUE, words)
                        ELSE ShellWords(t, i + 1, "double", Append(acc, c), TRUE, words)
                   [] OTHER ->
                        IF c = SQ THEN ShellWords(t, i + 1, "single", acc, TRUE, words)
                        ELSE IF c = DQ
                        THEN ShellWords(t, i + 1, "double", acc, TRUE, words)
                        ELSE IF c = "\\"
                        THEN IF i < Len(t)
                             THEN ShellWords(t, i + 2, "plain", Append(acc, t[i + 1]),
                                             TRUE, words)
                             ELSE bad
                        ELSE IF c \in {" ", "\t"}
                        THEN ShellWords(t, i + 1, "plain", <<>>, FALSE,
                                        IF begun THEN Append(words, acc) ELSE words)
                        ELSE IF c \in ShellMeta \cup {"$", BQ} THEN bad
                        ELSE ShellWords(t, i + 1, "plain", Append(acc, c), TRUE, words)

\* The words the string of a site is meant to be: the fixed words and the
\* values of the profile, each one word.
IntendedWords(site, p) ==
    CASE site = "remote" -> <<<<"c", "d">>, p.RemoteDir>>
      [] site = "tmux" ->
            (<<<<"ssh">>>>
             \o (IF p.Username # <<>> THEN <<<<"-l">>, p.Username>> ELSE <<>>)
             \o (IF p.IdentityFile # <<>> THEN <<<<"-i">>, p.IdentityFile>> ELSE <<>>)
             \o (IF p.ProxyJump # <<>> THEN <<<<"-J">>, p.ProxyJump>> ELSE <<>>)
             \o <<p.Host>>)
      [] OTHER ->
            (<<<<"ssh">>>>
             \o (IF p.IdentityFile # <<>> THEN <<<<"-i">>, p.IdentityFile>> ELSE <<>>)
             \o (IF p.ProxyJump # <<>> THEN <<<<"-J">>, p.ProxyJump>> ELSE <<>>))

\* The simple command of the string that holds the value: the whole string,
\* or the cd clause of the remote command.
ValueCommand(site, t) ==
    IF site = "remote"
    THEN ShellList(t, 1, "plain", "", <<>>, <<>>).segs[1].text
    ELSE t

\* C24: the value interpolated into the composite command string is parsed
\* by a POSIX shell as exactly one word equal to the value: the string
\* parses into the fixed words and the value, in their places.
C24_InterpolatedAsOneWord ==
    csDone =>
        LET w == ShellWords(ValueCommand(csSite, csOut), 1, "plain", <<>>, FALSE, <<>>)
        IN  w.ok /\ w.words = IntendedWords(csSite, FieldProfile(csField, csValue))

\* C24 for the ssh remote command alone.
C24_RemoteDirQuoted == csSite = "remote" => C24_InterpolatedAsOneWord

-----------------------------------------------------------------------------
(* The config file shared by concurrent invocations: config.Load and        *)
(* config.Save (internal/config).  A file is an inode; the directory names  *)
(* the inode of config.yaml and of config.yaml.tmp.  A config is the set of *)
(* its profile names, a content the sequence of the lines written.          *)

\* What the invocations leave alone.
notFileVars == <<coreVars, passwordVars, registryVars, quoteVars, remoteVars,
                 connectVars, cliVars, composeVars, migrateVars>>

\* The profile names the invocations add and remove.
FileNames == {"a", "b"}

\* What Load reads when config.yaml does not exist.
NoFile == <<"no such file">>

\* yaml.Marshal(cfg): the mapping's keys in sorted order.
Marshal(cfg) ==
    IF cfg = {} THEN <<"profiles: {}">>
    ELSE <<"profiles:">> \o (IF "a" \in cfg THEN <<"a:">> ELSE <<>>)
                         \o (IF "b" \in cfg THEN <<"b:">> ELSE <<>>)

\* yaml.Unmarshal(data, &cfg): an empty document leaves cfg zero; a document
\* that is not the serialization of a config (a cut one, one with a key
\* twice) is an error.
Unmarshal(data) ==
    IF data = <<>> THEN [cfg |-> {}, err |-> ""]
    ELSE IF \E c \in SUBSET FileNames : Marshal(c) = data
    THEN [cfg |-> CHOOSE c \in SUBSET FileNames : Marshal(c) = data, err |-> ""]
    ELSE [cfg |-> {}, err |-> "yaml: unmarshal errors"]

\* A write of data at offset 0 of a file that holds old.
WriteAt0(old, data) == data \o SubSeq(old, Len(data) + 1, Len(old))

\* The inodes a name or an open descriptor refers to.
Referenced(dir, fds) == {dir.path, dir.tmp} \cup {fds[p] : p \in Procs}

\* The contents with those of the unreferenced inodes dropped.
Reclaim(data, dir, fds) ==
    [i \in DOMAIN data |-> IF i \in Referenced(dir, fds) THEN data[i] ELSE <<>>]

InitFile ==
    /\ CoreIdle
    /\ PasswordIdle
    /\ RegistryIdle
    /\ QuoteIdle
    /\ RemoteIdle
    /\ ConnectIdle
    /\ CliIdle
    /\ ComposeIdle
    /\ MigrateIdle
    /\ \/ /\ fDir = [path |-> 0, tmp |-> 0]
          /\ fData = <<>>
          /\ fGiven = {}
       \/ \E c \in SUBSET FileNames :
            /\ fDir = [path |-> 1, tmp |-> 0]
            /\ fData = <<Marshal(c)>>
            /\ fGiven = {c}
    /\ fPc = [p \in Procs |-> "start"]
    /\ fMem = [p \in Procs |-> {}]
    /\ fFd = [p \in Procs |-> 0]
    /\ fRead = [p \in Procs |-> <<>>]
    /\ fErr = [p \in Procs |-> ""]
    /\ fLast = ""

\* config.Load: os.ReadFile and yaml.Unmarshal.
FileLoad(p) ==
    /\ fPc[p] = "start"
    /\ LET data == IF fDir.path = 0 THEN NoFile ELSE fData[fDir.path]
           r == IF fDir.path = 0 THEN [cfg |-> {}, err |-> ""] ELSE Unmarshal(data)
       IN  /\ fRead' = [fRead EXCEPT ![p] = data]
           /\ fMem' = [fMem EXCEPT ![p] = r.cfg]
           /\ fErr' = [fErr EXCEPT ![p] = r.err]
           /\ fPc' = [fPc EXCEPT ![p] = IF r.err = "" THEN "loaded" ELSE "done"]
    /\ UNCHANGED <<fDir, fData, fFd, fGiven, fLast>>
    /\ UNCHANGED notFileVars

\* cfg.UpsertProfile of a profile named n.
FileUpsert(p, n) ==
    /\ fPc[p] = "loaded"
    /\ fMem' = [fMem EXCEPT ![p] = @ \cup {n}]
    /\ fPc' = [fPc EXCEPT ![p] = "mutated"]
    /\ UNCHANGED <<fDir, fData, fFd, fRead, fErr, fGiven, fLast>>
    /\ UNCHANGED notFileVars

\* cfg.DeleteProfile(n)
FileDelete(p, n) ==
    /\ fPc[p] = "loaded"
    /\ fMem' = [fMem EXCEPT ![p] = @ \ {n}]
    /\ fPc' = [fPc EXCEPT ![p] = "mutated"]
    /\ UNCHANGED <<fDir, fData, fFd, fRead, fErr, fGiven, fLast>>
    /\ UNCHANGED notFileVars

\* The invocation only reads: list, show.
FileReadOnly(p) ==
    /\ fPc[p] = "loaded"
    /\ fPc' = [fPc EXCEPT ![p] = "done"]
    /\ UNCHANGED <<fDir, fData, fMem, fFd, fRead, fErr, fGiven, fLast>>
    /\ UNCHANGED notFileVars

\* config.Save, os.WriteFile(tmp, ...): the open of path + ".tmp" with
\* O_WRONLY|O_CREATE|O_TRUNC.
SaveOpen(p) ==
    /\ fPc[p] = "mutated"
    /\ IF fDir.tmp = 0
       THEN /\ fData' = Append(fData, <<>>)
            /\ fDir' = [fDir EXCEPT !.tmp = Len(fData) + 1]
            /\ fFd' = [fFd EXCEPT ![p] = Len(fData) + 1]
       ELSE /\ fData' = [fData EXCEPT ![fDir.tmp] = <<>>]
            /\ fFd' = [fFd EXCEPT ![p] = fDir.tmp]
            /\ UNCHANGED fDir
    /\ fGiven' = fGiven \cup {fMem[p]}
    /\ fPc' = [fPc EXCEPT ![p] = "opened"]
    /\ UNCHANGED <<fMem, fRead, fErr, fLast>>
    /\ UNCHANGED notFileVars

\* config.Save, os.WriteFile(tmp, ...): the write of the data and the close.
SaveWrite(p) ==
    /\ fPc[p] = "opened"
    /\ LET fds == [fFd EXCEPT ![p] = 0]
       IN  /\ fFd' = fds
           /\ fData' = Reclaim([fData EXCEPT ![fFd[p]] = WriteAt0(@, Marshal(fMem[p]))],
                               fDir, fds)
    /\ fPc' = [fPc EXCEPT ![p] = "written"]
    /\ UNCHANGED <<fDir, fMem, fRead, fErr, fGiven, fLast>>
    /\ UNCHANGED notFileVars

\* config.Save, os.Rename(tmp, path): fails when another invocation has
\* renamed the temp file away.
SaveRename(p) ==
    /\ fPc[p] = "written"
    /\ IF fDir.tmp = 0
       THEN /\ fErr' = [fErr EXCEPT ![p] = "rename: no such file or directory"]
            /\ UNCHANGED <<fDir, fData, fLast>>
       ELSE LET dir == [path |-> fDir.tmp, tmp |-> 0]
            IN  /\ fDir' = dir
                /\ fData' = Reclaim(fData, dir, fFd)
                /\ fLast' = p
                /\ UNCHANGED fErr
    /\ fPc' = [fPc EXCEPT ![p] = "done"]
    /\ UNCHANGED <<fMem, fFd, fRead, fGiven>>
    /\ UNCHANGED notFileVars

NextFile ==
    \E p \in Procs :
        \/ FileLoad(p)
        \/ \E n \in FileNames : FileUpsert(p, n)
        \/ \E n \in FileNames : FileDelete(p, n)
        \/ FileReadOnly(p)
        \/ SaveOpen(p)
        \/ SaveWrite(p)
        \/ SaveRename(p)

SpecFile == InitFile /\ [][NextFile]_vars

\* C26: a Load never observes a half-written file: what it reads is the
\* complete serialization of a config some Save call was given (or the file
\* does not exist).
C26_LoadReadsWholeFile ==
    \A p \in Procs :
        fPc[p] # "start" =>
            \/ fRead[p] = NoFile
            \/ \E c \in fGiven : fRead[p] = Marshal(c)

\* C27: once the concurrent invocations have finished, the file is exactly
\* the serialization of the in-memory config of the invocation that saved
\* last: nothing is merged and nothing of another invocation remains.
C27_LastWriterWins ==
    ((\A p \in Procs : fPc[p] = "done") /\ fLast # "") =>
        /\ fDir.path # 0
        /\ fData[fDir.path] = Marshal(fMem[fLast])

-----------------------------------------------------------------------------
(* The migrate command (internal/cli): copies the passwords of the config's *)
(* profiles from one credential backend to another.                         *)

\* What the migrate command leaves alone: all but the stores.
notMigrateVars ==
    <<coreVars, registryVars, quoteVars, remoteVars, connectVars, cliVars,
      composeVars, fileVars, access, opErrStream, gpKind, gpName, gpRet, gpErr>>

\* The names of the config's profiles.
MigrateNames == {"a", "b"}

\* The stores a backend may hold before the command runs.
StoresOver(names) == UNION {[d -> Passwords] : d \in SUBSET names}

InitMigrate ==
    /\ CoreIdle
    /\ RegistryIdle
    /\ QuoteIdle
    /\ RemoteIdle
    /\ ConnectIdle
    /\ CliIdle
    /\ ComposeIdle
    /\ FileIdle
    /\ MigrateIdle
    /\ PasswordStart
    /\ stores \in [BackendKinds -> StoresOver(MigrateNames)]
    /\ \E signedIn \in BOOLEAN :
            access = [k \in BackendKinds |-> k # Backend1Password \/ signedIn]
    /\ opErrStream \in {"stdout", "stderr"}

\* runMigrate up to its loop: the arguments are checked, the config is
\* loaded and the two backends are created.
MigrateStart(from, to, names) ==
    /\ mPhase = "idle"
    /\ mFrom' = from
    /\ mTo' = to
    /\ mBefore' = stores
    /\ mFailed' = 0
    /\ LET return(err) == mPhase' = "done" /\ mErr' = err /\ mPending' = {}
       IN  IF from \notin BackendKinds THEN return("invalid source backend")
           ELSE IF to \notin BackendKinds THEN return("invalid destination backend")
           ELSE IF from = to
           THEN return("source and destination backends are the same")
           ELSE IF names = {} THEN return("")
           ELSE IF Backend1Password \in {from, to} /\ ~access[Backend1Password]
           THEN return("1Password CLI not available")
           ELSE mPhase' = "running" /\ mErr' = "" /\ mPending' = names
    /\ UNCHANGED stores
    /\ UNCHANGED notMigrateVars

\* One turn of runMigrate's loop, for the profile name; srcOk, dstReadOk and
\* dstWriteOk: the backend is reachable at the source read, the destination
\* read and the destination write.
MigrateProfile(name, srcOk, dstReadOk, dstWriteOk) ==
    /\ mPhase = "running"
    /\ name \in mPending
    /\ mPending' = mPending \ {name}
    /\ LET at(k, ok) == [access EXCEPT ![k] = ok]
           src == BackendGetPassword(mFrom, stores, at(mFrom, srcOk), opErrStream, name)
           existing == BackendGetPassword(mTo, stores, at(mTo, dstReadOk),
                                          opErrStream, name)
           set == BackendSetPassword(mTo, stores, at(mTo, dstWriteOk), opErrStream,
                                     name, src.ret)
       IN  IF src.err # ""
           THEN mFailed' = mFailed + 1 /\ UNCHANGED stores
           ELSE IF src.ret = <<>>
           THEN UNCHANGED <<mFailed, stores>>
           ELSE IF existing.err = "" /\ existing.ret # <<>>
           THEN UNCHANGED <<mFailed, stores>>
           ELSE /\ stores' = [stores EXCEPT ![mTo] = set.store]
                /\ mFailed' = IF set.err # "" THEN mFailed + 1 ELSE mFailed
    /\ UNCHANGED <<mPhase, mFrom, mTo, mBefore, mErr>>
    /\ UNCHANGED notMigrateVars

\* runMigrate after its loop.
MigrateFinish ==
    /\ mPhase = "running"
    /\ mPending = {}
    /\ mPhase' = "done"
    /\ mErr' = IF mFailed > 0 THEN "migration completed with errors" ELSE ""
    /\ UNCHANGED <<stores, mFrom, mTo, mPending, mBefore, mFailed>>
    /\ UNCHANGED notMigrateVars

NextMigrate ==
    \/ \E from, to \in BackendKinds \cup {BackendAuto}, names \in SUBSET MigrateNames :
            MigrateStart(from, to, names)
    \/ \E name \in MigrateNames, srcOk, dstReadOk, dstWriteOk \in BOOLEAN :
            MigrateProfile(name, srcOk, dstReadOk, dstWriteOk)
    \/ MigrateFinish

SpecMigrate == InitMigrate /\ [][NextMigrate]_vars

\* The source backend holds what it held when the command started.
SourceKept == mFrom \in BackendKinds => stores[mFrom] = mBefore[mFrom]

\* The destination entries that held a non-empty password hold it still.
DestinationKept ==
    mTo \in BackendKinds =>
        \A n \in DOMAIN mBefore[mTo] :
            mBefore[mTo][n] # <<>> =>
                n \in DOMAIN stores[mTo] /\ stores[mTo][n] = mBefore[mTo][n]

\* C30: runMigrate never changes a destination entry that already held a
\* non-empty password and never changes an entry of the source backend,
\* whatever the individual reads and writes return.
C30_MigrateKeepsEntries == mPhase # "idle" => SourceKept /\ DestinationKept

\* C30, the half about the source backend.
C30_SourceKept == mPhase # "idle" => SourceKept

====
